---- MODULE Spec2Model ----
(***************************************************************************)
(* A model of merovingian: the contract differ (core/differ.py), the       *)
(* schema resolver of the scanner (core/scanner.py), the consumer registry *)
(* (core/registry.py), the impact orchestrator (core/impact.py) and the    *)
(* SQLite store they run against (core/store.py).                          *)
(*                                                                         *)
(* Conventions.  An Optional[...] value is a sequence: <<>> is None and    *)
(* <<v>> is the value v.  A JSON text is a record: [kind |-> "object",     *)
(* members |-> <<[key, value], ...>>] is the text of an object with its    *)
(* members in written order, [kind |-> "empty"] is the empty string and    *)
(* [kind |-> "garbage"] a text json.loads rejects.  A parsed dict is a     *)
(* function from its keys.  An f-string is the sequence of its parts.      *)
(***************************************************************************)
EXTENDS Integers, Sequences, FiniteSets, TLC

VARIABLES
    \* ---- the differ called as a pure function (SpecDiff, SpecFields)
    old,            \* diff_endpoints' argument old
    new,            \* diff_endpoints' argument new
    breaking,       \* the first list it returns
    non_breaking,   \* the second list it returns
    pc,             \* "start" before the call, "done" after it
    \* ---- _schema_to_fields called as a pure function (SpecResolve)
    schema,             \* its argument schema
    components_schemas, \* its argument components_schemas
    fields,             \* the field table it returns
    raised,             \* TRUE when the call ended in a RecursionError
    \* ---- the store and the operations on it (Spec)
    repos,          \* table repos: registered name -> RepoInfo
    endpoints,      \* table endpoints: a set of rows, one per identity
    consumers,      \* table consumers: a set of edges
    versions,       \* table contract_versions: a set of rows
    reports,        \* table impact_reports: a set of rows
    ids,            \* how many version and report ids were generated
    call,           \* the last call: what was called and how it ended
    \* ---- a scan of a directory (SpecScan)
    tree,           \* the directory: its specification documents and sources
    found,          \* the endpoint list scan_repo returned
    failed,         \* the exception scan_repo ended with, "" when it returned
    \* ---- compute_spec_hash on two lists (SpecHash)
    left,           \* an endpoint list
    right,          \* another endpoint list
    digests,        \* the hashes of the two lists
    \* ---- two invocations of assess_impact on one store (SpecRace)
    procs           \* each invocation: its position and its local variables

diffVars == <<old, new, breaking, non_breaking>>

resolveVars == <<schema, components_schemas, fields, raised>>

storeVars == <<repos, endpoints, consumers, versions, reports, ids, call>>

scanVars == <<tree, found, failed>>

hashVars == <<left, right, digests>>

restVars == <<scanVars, hashVars, procs>>

vars == <<diffVars, resolveVars, storeVars, restVars, pc>>

-----------------------------------------------------------------------------
(* Generic helpers *)

None == <<>>

Some(v) == <<v>>

\* Python truthiness of an Optional[str]: None and "" are falsy.
Truthy(opt) == opt # None /\ opt[1] # ""

\* dict.get(key, default)
Get(d, key, default) == IF key \in DOMAIN d THEN d[key] ELSE default

RECURSIVE Concat(_)
Concat(ss) == IF ss = <<>> THEN <<>> ELSE Head(ss) \o Concat(Tail(ss))

\* The number of entries of list xs that satisfy P.
Count(xs, P(_)) == Cardinality({i \in 1..Len(xs) : P(xs[i])})

Range(xs) == {xs[i] : i \in 1..Len(xs)}

-----------------------------------------------------------------------------
(* models/enums.py *)

ADDED == "added"

REMOVED == "removed"

MODIFIED == "modified"

BREAKING == "breaking"

WARNING == "warning"

INFO == "info"

(* models/contracts.py *)

Endpoint(repo_name, method, path, summary, request_schema, response_schema) ==
    [repo_name |-> repo_name, method |-> method, path |-> path,
     summary |-> summary, request_schema |-> request_schema,
     response_schema |-> response_schema]

ContractChange(repo_name, method, path, change_kind, severity, description) ==
    [repo_name |-> repo_name, endpoint_method |-> method,
     endpoint_path |-> path, change_kind |-> change_kind,
     severity |-> severity, description |-> description,
     affected_consumers |-> <<>>]

-----------------------------------------------------------------------------
(* core/differ.py *)

\* The order in which a set of field names is iterated.  Python leaves the
\* iteration order of a set open; the lists are built in this fixed order and
\* no property below reads the position of an entry.
FieldOrder == <<"id", "total", "name">>

InOrder(S) == SelectSeq(FieldOrder, LAMBDA f : f \in S)

\* json.loads of an object text: the members become a dict, a repeated key
\* keeping its last value.
LoadMembers(members) ==
    [k \in {members[i].key : i \in 1..Len(members)} |->
        LET last == CHOOSE i \in 1..Len(members) :
                        /\ members[i].key = k
                        /\ \A j \in (i+1)..Len(members) : members[j].key # k
        IN members[last].value]

\* The empty dict {}.
EmptyDict == [k \in {} |-> TRUE]

_parse_schema(schema_json) ==
    IF schema_json = None \/ schema_json[1].kind = "empty"
    THEN EmptyDict
    ELSE IF schema_json[1].kind = "object"
         THEN LoadMembers(schema_json[1].members)
         ELSE EmptyDict

widening_pairs ==
    {<<"integer", "number">>, <<"int", "float">>, <<"int", "number">>}

\* Mutant: a widening pair read in both directions.
_is_type_widening_Symmetric(old_type, new_type) ==
    <<old_type, new_type>> \in widening_pairs \/ <<new_type, old_type>> \in widening_pairs

_is_type_widening(old_type, new_type) == <<old_type, new_type>> \in widening_pairs

\* Mutant: a removed field is BREAKING whatever the direction.
FieldsRemoved_AnyDirection(old_schema, new_schema, direction, repo_name, method, path) ==
    LET fs == InOrder(DOMAIN old_schema \ DOMAIN new_schema)
        one(f) == ContractChange(repo_name, method, path, REMOVED, BREAKING,
                      <<(IF direction = "response" THEN "Response field"
                         ELSE "Request field"), f, "removed from", method, path>>)
    IN <<[i \in 1..Len(fs) |-> one(fs[i])], <<>>>>

\* Mutant: a removed field is INFO whatever the direction.
FieldsRemoved_Info(old_schema, new_schema, direction, repo_name, method, path) ==
    LET fs == InOrder(DOMAIN old_schema \ DOMAIN new_schema)
        one(f) == ContractChange(repo_name, method, path, REMOVED, INFO,
                      <<(IF direction = "response" THEN "Response field"
                         ELSE "Request field"), f, "removed from", method, path>>)
    IN <<<<>>, [i \in 1..Len(fs) |-> one(fs[i])]>>

\* The loop over old_fields - new_fields.
FieldsRemoved(old_schema, new_schema, direction, repo_name, method, path) ==
    LET fs == InOrder(DOMAIN old_schema \ DOMAIN new_schema)
        one(f) ==
            IF direction = "response"
            THEN <<ContractChange(repo_name, method, path, REMOVED, BREAKING,
                      <<"Response field", f, "removed from", method, path>>)>>
            ELSE <<>>
        other(f) ==
            IF direction = "response"
            THEN <<>>
            ELSE <<ContractChange(repo_name, method, path, REMOVED, INFO,
                      <<"Request field", f, "removed from", method, path>>)>>
    IN <<Concat([i \in 1..Len(fs) |-> one(fs[i])]),
         Concat([i \in 1..Len(fs) |-> other(fs[i])])>>

\* Mutant: an added required field is BREAKING whatever the direction.
FieldsAdded_AnyDirection(old_schema, new_schema, direction, repo_name, method, path) ==
    LET fs == InOrder(DOMAIN new_schema \ DOMAIN old_schema)
        is_required(f) == Get(new_schema[f], "required", FALSE)
        label(f) == IF direction = "response" THEN "Response field"
                    ELSE IF is_required(f) THEN "Required request field"
                    ELSE "Optional request field"
        b(f) == IF is_required(f)
                THEN <<ContractChange(repo_name, method, path, ADDED, BREAKING,
                          <<label(f), f, "added to", method, path>>)>>
                ELSE <<>>
        nb(f) == IF is_required(f)
                 THEN <<>>
                 ELSE <<ContractChange(repo_name, method, path, ADDED, INFO,
                          <<label(f), f, "added to", method, path>>)>>
    IN <<Concat([i \in 1..Len(fs) |-> b(fs[i])]),
         Concat([i \in 1..Len(fs) |-> nb(fs[i])])>>

\* The loop over new_fields - old_fields.
FieldsAdded(old_schema, new_schema, direction, repo_name, method, path) ==
    LET fs == InOrder(DOMAIN new_schema \ DOMAIN old_schema)
        is_required(f) == Get(new_schema[f], "required", FALSE)
        b(f) ==
            IF direction = "request" /\ is_required(f)
            THEN <<ContractChange(repo_name, method, path, ADDED, BREAKING,
                      <<"Required request field", f, "added to", method, path>>)>>
            ELSE <<>>
        nb(f) ==
            IF direction = "request" /\ is_required(f)
            THEN <<>>
            ELSE IF direction = "response"
            THEN <<ContractChange(repo_name, method, path, ADDED, INFO,
                      <<"Response field", f, "added to", method, path>>)>>
            ELSE <<ContractChange(repo_name, method, path, ADDED, INFO,
                      <<"Optional request field", f, "added to", method, path>>)>>
    IN <<Concat([i \in 1..Len(fs) |-> b(fs[i])]),
         Concat([i \in 1..Len(fs) |-> nb(fs[i])])>>

\* The "Type changed" branch for one field of both tables.
TypeChanged(old_field, new_field, field_name, direction, repo_name, method, path) ==
    LET old_type == Get(old_field, "type", "")
        new_type == Get(new_field, "type", "")
    IN IF old_type = new_type
       THEN <<<<>>, <<>>>>
       ELSE IF _is_type_widening(old_type, new_type)
       THEN <<<<>>,
              <<ContractChange(repo_name, method, path, MODIFIED, WARNING,
                  <<"Field", field_name, "type widened from", old_type, "to",
                    new_type, "in", direction, "of", method, path>>)>>>>
       ELSE <<<<ContractChange(repo_name, method, path, MODIFIED, BREAKING,
                  <<"Field", field_name, "type changed from", old_type, "to",
                    new_type, "in", direction, "of", method, path>>)>>,
              <<>>>>

\* Mutant: every change of a required flag goes to the breaking list.
RequiredChanged_InBreaking(old_field, new_field, field_name, direction, repo_name, method, path) ==
    LET old_required == Get(old_field, "required", FALSE)
        new_required == Get(new_field, "required", FALSE)
    IN IF old_required = new_required
       THEN <<<<>>, <<>>>>
       ELSE <<<<ContractChange(repo_name, method, path, MODIFIED,
                   (IF ~old_required /\ new_required /\ direction = "request"
                    THEN BREAKING
                    ELSE IF direction = "response" /\ old_required THEN WARNING
                    ELSE INFO),
                   <<"Field", field_name, "required changed", "in", direction,
                     "of", method, path>>)>>, <<>>>>

\* The "Required changed" branch for one field of both tables.
RequiredChanged(old_field, new_field, field_name, direction, repo_name, method, path) ==
    LET old_required == Get(old_field, "required", FALSE)
        new_required == Get(new_field, "required", FALSE)
        to_required == <<"Field", field_name, "changed from optional to required",
                         "in", direction, "of", method, path>>
        to_optional == <<"Field", field_name, "changed from required to optional",
                         "in", direction, "of", method, path>>
    IN IF old_required = new_required
       THEN <<<<>>, <<>>>>
       ELSE IF ~old_required /\ new_required
       THEN IF direction = "request"
            THEN <<<<ContractChange(repo_name, method, path, MODIFIED, BREAKING,
                       to_required)>>, <<>>>>
            ELSE <<<<>>, <<ContractChange(repo_name, method, path, MODIFIED, INFO,
                       to_required)>>>>
       ELSE IF direction = "response"
            THEN <<<<>>, <<ContractChange(repo_name, method, path, MODIFIED, WARNING,
                       to_optional)>>>>
            ELSE <<<<>>, <<ContractChange(repo_name, method, path, MODIFIED, INFO,
                       to_optional)>>>>

\* Mutant: the required flags are compared only when the type is unchanged.
FieldsModified_ElseRequired(old_schema, new_schema, direction, repo_name, method, path) ==
    LET fs == InOrder(DOMAIN old_schema \cap DOMAIN new_schema)
        t(f) == TypeChanged(old_schema[f], new_schema[f], f, direction,
                            repo_name, method, path)
        r(f) == IF t(f) = <<<<>>, <<>>>>
                THEN RequiredChanged(old_schema[f], new_schema[f], f, direction,
                                     repo_name, method, path)
                ELSE <<<<>>, <<>>>>
    IN <<Concat([i \in 1..Len(fs) |-> t(fs[i])[1] \o r(fs[i])[1]]),
         Concat([i \in 1..Len(fs) |-> t(fs[i])[2] \o r(fs[i])[2]])>>

\* The loop over old_fields & new_fields.
FieldsModified(old_schema, new_schema, direction, repo_name, method, path) ==
    LET fs == InOrder(DOMAIN old_schema \cap DOMAIN new_schema)
        t(f) == TypeChanged(old_schema[f], new_schema[f], f, direction,
                            repo_name, method, path)
        r(f) == RequiredChanged(old_schema[f], new_schema[f], f, direction,
                                repo_name, method, path)
    IN <<Concat([i \in 1..Len(fs) |-> t(fs[i])[1] \o r(fs[i])[1]]),
         Concat([i \in 1..Len(fs) |-> t(fs[i])[2] \o r(fs[i])[2]])>>

_diff_schema(old_schema, new_schema, direction, repo_name, method, path) ==
    LET rem == FieldsRemoved(old_schema, new_schema, direction, repo_name, method, path)
        add == FieldsAdded(old_schema, new_schema, direction, repo_name, method, path)
        mod == FieldsModified(old_schema, new_schema, direction, repo_name, method, path)
    IN <<rem[1] \o add[1] \o mod[1], rem[2] \o add[2] \o mod[2]>>

\* The keys of {(ep.method, ep.path): ep for ep in eps}, in insertion order:
\* a key keeps the place of its first occurrence.
MapKeys(eps) ==
    LET first(i) == \A j \in 1..(i-1) :
                        <<eps[j].method, eps[j].path>> # <<eps[i].method, eps[i].path>>
        idx == SelectSeq([i \in 1..Len(eps) |-> i], first)
    IN [n \in 1..Len(idx) |-> <<eps[idx[n]].method, eps[idx[n]].path>>]

\* The value the dict comprehension keeps for a key: its last occurrence.
MapGet(eps, key) ==
    LET last == CHOOSE i \in 1..Len(eps) :
                    /\ <<eps[i].method, eps[i].path>> = key
                    /\ \A j \in (i+1)..Len(eps) :
                           <<eps[j].method, eps[j].path>> # key
    IN eps[last]

\* Mutant: one change per entry of the old list, not per key of old_map.
RemovedEndpoints_PerEntry(old_eps, new_eps) ==
    LET new_keys == Range(MapKeys(new_eps))
        es == SelectSeq(old_eps, LAMBDA ep : <<ep.method, ep.path>> \notin new_keys)
    IN [i \in 1..Len(es) |->
          ContractChange(es[i].repo_name, es[i].method, es[i].path, REMOVED,
              BREAKING, <<"Endpoint", es[i].method, es[i].path, "removed">>)]

\* The "Removed endpoints" loop.
RemovedEndpoints(old_eps, new_eps) ==
    LET new_keys == Range(MapKeys(new_eps))
        ks == SelectSeq(MapKeys(old_eps), LAMBDA k : k \notin new_keys)
        ch(k) == LET ep == MapGet(old_eps, k)
                 IN ContractChange(ep.repo_name, ep.method, ep.path, REMOVED,
                        BREAKING, <<"Endpoint", ep.method, ep.path, "removed">>)
    IN [i \in 1..Len(ks) |-> ch(ks[i])]

\* The "Added endpoints" loop.
AddedEndpoints(old_eps, new_eps) ==
    LET old_keys == Range(MapKeys(old_eps))
        ks == SelectSeq(MapKeys(new_eps), LAMBDA k : k \notin old_keys)
        ch(k) == LET ep == MapGet(new_eps, k)
                 IN ContractChange(ep.repo_name, ep.method, ep.path, ADDED,
                        INFO, <<"Endpoint", ep.method, ep.path, "added">>)
    IN [i \in 1..Len(ks) |-> ch(ks[i])]

\* One schema of one endpoint present in both maps: the guarded call of
\* _diff_schema.
SchemaDiff(old_json, new_json, direction, old_ep) ==
    LET old_schema == _parse_schema(old_json)
        new_schema == _parse_schema(new_json)
    IN IF DOMAIN old_schema # {} \/ DOMAIN new_schema # {}
       THEN _diff_schema(old_schema, new_schema, direction,
                         old_ep.repo_name, old_ep.method, old_ep.path)
       ELSE <<<<>>, <<>>>>

\* Mutant: the summaries are not compared.
SummaryChange_NoCompare(old_ep, new_ep) ==
    IF Truthy(new_ep.summary)
    THEN <<ContractChange(old_ep.repo_name, old_ep.method, old_ep.path,
              MODIFIED, INFO,
              <<"Summary changed for", old_ep.method, old_ep.path>>)>>
    ELSE <<>>

\* A summary change for every difference, an emptied summary included.
SummaryChange_AnyDifference(old_ep, new_ep) ==
    IF old_ep.summary # new_ep.summary
    THEN <<ContractChange(old_ep.repo_name, old_ep.method, old_ep.path,
              MODIFIED, INFO,
              <<"Summary changed for", old_ep.method, old_ep.path>>)>>
    ELSE <<>>

\* The "Summary change" branch.
SummaryChange(old_ep, new_ep) ==
    IF old_ep.summary # new_ep.summary /\ Truthy(new_ep.summary)
    THEN <<ContractChange(old_ep.repo_name, old_ep.method, old_ep.path,
              MODIFIED, INFO,
              <<"Summary changed for", old_ep.method, old_ep.path>>)>>
    ELSE <<>>

\* The "Modified endpoints" loop.
ModifiedEndpoints(old_eps, new_eps) ==
    LET new_keys == Range(MapKeys(new_eps))
        ks == SelectSeq(MapKeys(old_eps), LAMBDA k : k \in new_keys)
        req(k) == SchemaDiff(MapGet(old_eps, k).request_schema,
                             MapGet(new_eps, k).request_schema,
                             "request", MapGet(old_eps, k))
        resp(k) == SchemaDiff(MapGet(old_eps, k).response_schema,
                              MapGet(new_eps, k).response_schema,
                              "response", MapGet(old_eps, k))
        summ(k) == SummaryChange(MapGet(old_eps, k), MapGet(new_eps, k))
    IN <<Concat([i \in 1..Len(ks) |-> req(ks[i])[1] \o resp(ks[i])[1]]),
         Concat([i \in 1..Len(ks) |->
                    req(ks[i])[2] \o resp(ks[i])[2] \o summ(ks[i])])>>

diff_endpoints(old_eps, new_eps) ==
    LET mod == ModifiedEndpoints(old_eps, new_eps)
    IN <<RemovedEndpoints(old_eps, new_eps) \o mod[1],
         AddedEndpoints(old_eps, new_eps) \o mod[2]>>

-----------------------------------------------------------------------------
(* core/scanner.py: schema resolution *)

(* A schema node is a dict: "$ref" maps to a reference text (the sequence of  *)
(* its prefix and the name after it), "allOf", "anyOf" and "oneOf" to lists   *)
(* of nodes, "properties" to a dict of nodes, "required" to a list of names,  *)
(* "type" to a string and "default" to an Optional value.  A call returns     *)
(* [raised, value]: raised is TRUE when the interpreter ended it with a       *)
(* RecursionError.                                                            *)

\* The depth of nested _resolve_schema calls at which the interpreter raises
\* RecursionError; it stands for the interpreter's recursion limit.
MaxDepth == 6

RecursionError == [raised |-> TRUE, value |-> EmptyDict]

Return(v) == [raised |-> FALSE, value |-> v]

prefix == "#/components/schemas/"

RECURSIVE _resolve_ref(_, _, _)
_resolve_ref(ref, components, _seen) ==
    IF ref \in _seen
    THEN EmptyDict
    ELSE IF ref[1] # prefix
    THEN EmptyDict
    ELSE LET schema_name == ref[2]
             resolved == Get(components, schema_name, EmptyDict)
         IN IF "$ref" \in DOMAIN resolved
            THEN _resolve_ref(resolved["$ref"], components, _seen \cup {ref})
            ELSE resolved

\* An update that keeps the entries d1 has.
Update_KeepFirst(d1, d2) ==
    [k \in DOMAIN d1 \cup DOMAIN d2 |-> IF k \in DOMAIN d1 THEN d1[k] ELSE d2[k]]

\* dict.update: the entries of d2 overwrite those of d1.
Update(d1, d2) ==
    [k \in DOMAIN d1 \cup DOMAIN d2 |-> IF k \in DOMAIN d2 THEN d2[k] ELSE d1[k]]

RECURSIVE UpdateAll(_)
UpdateAll(ds) ==
    IF ds = <<>> THEN EmptyDict
    ELSE Update(UpdateAll(SubSeq(ds, 1, Len(ds) - 1)), ds[Len(ds)])

\* The depth of a call made from a call at this depth.
Deeper(depth) == depth + 1

RECURSIVE _resolve_schema(_, _, _)
_resolve_schema(node, components, depth) ==
    IF depth > MaxDepth
    THEN RecursionError
    ELSE
    LET s == IF "$ref" \in DOMAIN node
             THEN _resolve_ref(node["$ref"], components, {})
             ELSE node
    IN IF "allOf" \in DOMAIN s
       THEN LET subs == s["allOf"]
                rs == [i \in 1..Len(subs) |->
                          _resolve_schema(subs[i], components, Deeper(depth))]
            IN IF \E i \in 1..Len(subs) : rs[i].raised
               THEN RecursionError
               ELSE Return(
                      [k \in {"type", "properties", "required"} |->
                         CASE k = "type" -> "object"
                           [] k = "properties" ->
                                UpdateAll([i \in 1..Len(subs) |->
                                    Get(rs[i].value, "properties", EmptyDict)])
                           [] k = "required" ->
                                Concat([i \in 1..Len(subs) |->
                                    Get(rs[i].value, "required", <<>>)])])
       ELSE IF "anyOf" \in DOMAIN s /\ s["anyOf"] # <<>>
       THEN _resolve_schema(s["anyOf"][1], components, Deeper(depth))
       ELSE IF "oneOf" \in DOMAIN s /\ s["oneOf"] # <<>>
       THEN _resolve_schema(s["oneOf"][1], components, Deeper(depth))
       ELSE Return(s)

_schema_to_fields(node, components) ==
    LET r == _resolve_schema(node, components, 0)
        s == r.value
        properties == Get(s, "properties", EmptyDict)
        required_fields == Range(Get(s, "required", <<>>))
        fr == [f \in DOMAIN properties |->
                  _resolve_schema(properties[f], components, 0)]
    IN IF r.raised
       THEN RecursionError
       ELSE IF Get(s, "type", "") # "object" /\ "properties" \notin DOMAIN s
       THEN Return(EmptyDict)
       ELSE IF \E f \in DOMAIN properties : fr[f].raised
       THEN RecursionError
       ELSE Return([f \in DOMAIN properties |->
                      [type |-> Get(fr[f].value, "type", "object"),
                       required |-> f \in required_fields,
                       default |-> Get(fr[f].value, "default", None)]])

-----------------------------------------------------------------------------
(* The differ called on bounded inputs *)

\* The longest endpoint list handed to diff_endpoints.
MaxLen == 2

\* JSON texts.
Member(key, value) == [key |-> key, value |-> value]

Object(members) == Some([kind |-> "object", members |-> members])

EmptyText == Some([kind |-> "empty"])

Garbage == Some([kind |-> "garbage"])

Types == {"integer", "number", "int", "float", "string"}

\* Field descriptors: a type tag and a required flag, either of which may be
\* missing.
Descriptors ==
    {[type |-> t, required |-> r] : t \in Types, r \in BOOLEAN}
        \cup {[type |-> t] : t \in Types}
        \cup {[required |-> r] : r \in BOOLEAN}

TotalDescriptor == [type |-> "number", required |-> TRUE]

\* Schemas of the field-level family: field "id" with any descriptor, with or
\* without a second field "total".
RichSchemas ==
    {None, EmptyText, Garbage, Object(<<>>),
     Object(<<Member("total", TotalDescriptor)>>)}
        \cup {Object(<<Member("id", d)>>) : d \in Descriptors}
        \cup {Object(<<Member("id", d), Member("total", TotalDescriptor)>>) :
                 d \in Descriptors}

\* Schemas carried in the other direction of the field-level family.
SideSchemas ==
    {None, Object(<<Member("name", [type |-> "string", required |-> TRUE])>>)}

\* Endpoints of the list-level family: two identities, several variants each.
IdInt == Member("id", [type |-> "integer", required |-> TRUE])

ListEndpoints ==
    {Endpoint("orders", "GET", "/x", None, None, Object(<<IdInt>>)),
     Endpoint("orders", "GET", "/x", Some("Get x"), None,
              Object(<<Member("total", TotalDescriptor), IdInt>>)),
     Endpoint("orders", "GET", "/x", Some(""),
              Object(<<Member("name", [type |-> "string", required |-> TRUE])>>),
              None),
     Endpoint("orders", "POST", "/x", Some("Create"), None, None),
     Endpoint("orders", "POST", "/x", Some("Create x"),
              Object(<<Member("name", [type |-> "string", required |-> FALSE])>>),
              Object(<<Member("id", [type |-> "number"])>>))}

ListsUpTo(S, n) == UNION {[1..m -> S] : m \in 0..n}

\* One endpoint on each side, the same identity, a pair of rich schemas in one
\* direction and a pair of side schemas in the other.
InitFields ==
    \E direction \in {"request", "response"} :
    \E o \in RichSchemas, n \in RichSchemas :
    \E so \in SideSchemas, sn \in SideSchemas :
        /\ old = IF direction = "request"
                 THEN <<Endpoint("orders", "GET", "/x", None, o, so)>>
                 ELSE <<Endpoint("orders", "GET", "/x", None, so, o)>>
        /\ new = IF direction = "request"
                 THEN <<Endpoint("orders", "GET", "/x", None, n, sn)>>
                 ELSE <<Endpoint("orders", "GET", "/x", None, sn, n)>>

InitLists ==
    /\ old \in ListsUpTo(ListEndpoints, MaxLen)
    /\ new \in ListsUpTo(ListEndpoints, MaxLen)

\* The variables of the other specifications, at rest.
ResolveIdle ==
    /\ schema = EmptyDict
    /\ components_schemas = EmptyDict
    /\ fields = EmptyDict
    /\ raised = FALSE

\* No scan, no hash and no second invocation.
RestIdle ==
    /\ tree = <<>>
    /\ found = <<>>
    /\ failed = ""
    /\ left = <<>>
    /\ right = <<>>
    /\ digests = <<>>
    /\ procs = <<>>

\* The store after construction: empty tables, no call made.
NoCall ==
    [op |-> "none", repo_name |-> "", outcome |-> "ok", scanned |-> <<>>,
     report |-> None]

StoreIdle ==
    /\ repos = EmptyDict
    /\ endpoints = {}
    /\ consumers = {}
    /\ versions = {}
    /\ reports = {}
    /\ ids = 0
    /\ call = NoCall

InitDiff ==
    /\ InitFields \/ InitLists
    /\ breaking = <<>>
    /\ non_breaking = <<>>
    /\ pc = "start"
    /\ ResolveIdle
    /\ StoreIdle
    /\ RestIdle

\* The call diff_endpoints(old, new).
DiffEndpoints ==
    /\ pc = "start"
    /\ LET d == diff_endpoints(old, new)
       IN /\ breaking' = d[1]
          /\ non_breaking' = d[2]
    /\ pc' = "done"
    /\ UNCHANGED <<old, new, resolveVars, storeVars, restVars>>

NextDiff == DiffEndpoints

SpecDiff == InitDiff /\ [][NextDiff]_vars

-----------------------------------------------------------------------------
(* Properties of the differ, read off the argument and result lists *)

Identity(ep) == <<ep.method, ep.path>>

Identities(eps) == {Identity(eps[i]) : i \in 1..Len(eps)}

\* The endpoint a list holds for an identity: the last one listed.
Holds(eps, k) ==
    eps[CHOOSE i \in 1..Len(eps) :
            /\ Identity(eps[i]) = k
            /\ \A j \in (i+1)..Len(eps) : Identity(eps[j]) # k]

Directions == {"request", "response"}

SchemaOf(ep, direction) ==
    IF direction = "request" THEN ep.request_schema ELSE ep.response_schema

\* The field names of a schema text, and the descriptor it gives a field (the
\* last member of that name).
FieldNames(schema_json) ==
    IF schema_json # None /\ schema_json[1].kind = "object"
    THEN {schema_json[1].members[i].key : i \in 1..Len(schema_json[1].members)}
    ELSE {}

Descriptor(schema_json, f) ==
    LET ms == schema_json[1].members
    IN ms[CHOOSE i \in 1..Len(ms) :
              /\ ms[i].key = f
              /\ \A j \in (i+1)..Len(ms) : ms[j].key # f].value

IsRequired(d) == "required" \in DOMAIN d /\ d.required

TypeTag(d) == IF "type" \in DOMAIN d THEN d.type ELSE ""

For(c, k) == <<c.endpoint_method, c.endpoint_path>> = k

\* The entries a change list holds about field f of one direction of k.
IsFieldRemoved(c, k, direction, f) ==
    /\ For(c, k)
    /\ c.change_kind = REMOVED
    /\ c.description[1] =
           (IF direction = "request" THEN "Request field" ELSE "Response field")
    /\ c.description[2] = f

IsFieldAdded(c, k, direction, f) ==
    /\ For(c, k)
    /\ c.change_kind = ADDED
    /\ c.description[1] \in
           (IF direction = "request"
            THEN {"Required request field", "Optional request field"}
            ELSE {"Response field"})
    /\ c.description[2] = f

IsTypeChange(c, k, direction, f) ==
    /\ For(c, k)
    /\ c.change_kind = MODIFIED
    /\ c.description[1] = "Field"
    /\ c.description[2] = f
    /\ c.description[3] \in {"type widened from", "type changed from"}
    /\ c.description[8] = direction

IsRequiredChange(c, k, direction, f) ==
    /\ For(c, k)
    /\ c.change_kind = MODIFIED
    /\ c.description[1] = "Field"
    /\ c.description[2] = f
    /\ c.description[3] \in {"changed from optional to required",
                              "changed from required to optional"}
    /\ c.description[5] = direction

IsFieldLevel(c) ==
    c.description[1] \in {"Request field", "Response field", "Field",
                          "Required request field", "Optional request field"}

\* Exactly one entry satisfying P, in the breaking list with severity BREAKING
\* when sev is BREAKING and in the non-breaking list with severity sev otherwise.
ExactlyOne(P(_), sev) ==
    /\ Count(breaking \o non_breaking, P) = 1
    /\ IF sev = BREAKING
       THEN Count(breaking, LAMBDA c : P(c) /\ c.severity = BREAKING) = 1
       ELSE Count(non_breaking, LAMBDA c : P(c) /\ c.severity = sev) = 1

\* C1: an identity present in exactly one of old and new gets exactly one
\* change and no field-level change: BREAKING/REMOVED in the breaking list
\* when it is only in old, INFO/ADDED in the non-breaking list when it is only
\* in new.
C1_OneSidedIdentity ==
    pc = "done" =>
        /\ \A k \in Identities(old) \ Identities(new) :
              /\ ExactlyOne(LAMBDA c : For(c, k), BREAKING)
              /\ \A i \in 1..Len(breaking) :
                    For(breaking[i], k) =>
                        /\ breaking[i].change_kind = REMOVED
                        /\ ~IsFieldLevel(breaking[i])
        /\ \A k \in Identities(new) \ Identities(old) :
              /\ ExactlyOne(LAMBDA c : For(c, k), INFO)
              /\ \A i \in 1..Len(non_breaking) :
                    For(non_breaking[i], k) =>
                        /\ non_breaking[i].change_kind = ADDED
                        /\ ~IsFieldLevel(non_breaking[i])
        /\ (Len(old) = 1 /\ new = <<>>) =>
              Len(breaking) = 1 /\ non_breaking = <<>>
        /\ (old = <<>> /\ Len(new) = 1) =>
              breaking = <<>> /\ Len(non_breaking) = 1

\* A removal and an addition in one diff, the removed endpoint carrying schemas.
C1_Witness ==
    /\ pc = "done"
    /\ \E k \in Identities(old) \ Identities(new) :
          Holds(old, k).response_schema # None
    /\ Identities(new) \ Identities(old) # {}

\* C2: for an identity in both lists, each field of the old table missing from
\* the new one yields exactly one REMOVED change, BREAKING for the response
\* schema and INFO for the request schema, also when the new schema is absent
\* or empty.
C2_FieldRemoved ==
    pc = "done" =>
        \A k \in Identities(old) \cap Identities(new) : \A direction \in Directions :
            LET o == SchemaOf(Holds(old, k), direction)
                n == SchemaOf(Holds(new, k), direction)
            IN \A f \in FieldNames(o) \ FieldNames(n) :
                  ExactlyOne(LAMBDA c : IsFieldRemoved(c, k, direction, f),
                             IF direction = "response" THEN BREAKING ELSE INFO)

\* Two fields removed at once because the new schema is absent.
C2_Witness ==
    /\ pc = "done"
    /\ \E k \in Identities(old) \cap Identities(new) : \E direction \in Directions :
          /\ Cardinality(FieldNames(SchemaOf(Holds(old, k), direction))) = 2
          /\ SchemaOf(Holds(new, k), direction) = None

\* C3: each field only in the new table yields exactly one ADDED change,
\* BREAKING iff the direction is request and the new field's required flag is
\* true, INFO otherwise.
C3_FieldAdded ==
    pc = "done" =>
        \A k \in Identities(old) \cap Identities(new) : \A direction \in Directions :
            LET o == SchemaOf(Holds(old, k), direction)
                n == SchemaOf(Holds(new, k), direction)
            IN \A f \in FieldNames(n) \ FieldNames(o) :
                  ExactlyOne(LAMBDA c : IsFieldAdded(c, k, direction, f),
                             IF direction = "request" /\ IsRequired(Descriptor(n, f))
                             THEN BREAKING ELSE INFO)

\* A required field added to a response, and one with no required flag added
\* to a request.
C3_Witness ==
    /\ pc = "done"
    /\ \E k \in Identities(old) \cap Identities(new) :
          /\ LET o == SchemaOf(Holds(old, k), "request")
                 n == SchemaOf(Holds(new, k), "request")
             IN \E f \in FieldNames(n) \ FieldNames(o) :
                   "required" \notin DOMAIN Descriptor(n, f)
          /\ LET o == SchemaOf(Holds(old, k), "response")
                 n == SchemaOf(Holds(new, k), "response")
             IN \E f \in FieldNames(n) \ FieldNames(o) :
                   IsRequired(Descriptor(n, f))

\* C4: a field of both tables whose required flag differs (a missing flag reads
\* as not required) yields exactly one MODIFIED entry: optional->required is
\* BREAKING for a request and INFO for a response, required->optional is INFO
\* for a request and WARNING for a response; whether or not the type differs.
C4_RequiredChanged ==
    pc = "done" =>
        \A k \in Identities(old) \cap Identities(new) : \A direction \in Directions :
            LET o == SchemaOf(Holds(old, k), direction)
                n == SchemaOf(Holds(new, k), direction)
            IN \A f \in FieldNames(o) \cap FieldNames(n) :
                  LET was == IsRequired(Descriptor(o, f))
                      is == IsRequired(Descriptor(n, f))
                  IN was # is =>
                        ExactlyOne(LAMBDA c : IsRequiredChange(c, k, direction, f),
                                   IF is
                                   THEN (IF direction = "request"
                                         THEN BREAKING ELSE INFO)
                                   ELSE (IF direction = "request"
                                         THEN INFO ELSE WARNING))

\* A response field that loses its required flag and changes its type.
C4_Witness ==
    /\ pc = "done"
    /\ \E k \in Identities(old) \cap Identities(new) :
          LET o == SchemaOf(Holds(old, k), "response")
              n == SchemaOf(Holds(new, k), "response")
          IN \E f \in FieldNames(o) \cap FieldNames(n) :
                /\ IsRequired(Descriptor(o, f))
                /\ "required" \notin DOMAIN Descriptor(n, f)
                /\ TypeTag(Descriptor(o, f)) # TypeTag(Descriptor(n, f))
                /\ \E i \in 1..Len(non_breaking) :
                      /\ IsRequiredChange(non_breaking[i], k, "response", f)
                      /\ non_breaking[i].severity = WARNING

\* C5: a field of both tables whose type tag differs yields exactly one
\* MODIFIED type change, in either direction WARNING iff (old type, new type)
\* is integer->number, int->float or int->number, and BREAKING otherwise.
C5_TypeChanged ==
    pc = "done" =>
        \A k \in Identities(old) \cap Identities(new) : \A direction \in Directions :
            LET o == SchemaOf(Holds(old, k), direction)
                n == SchemaOf(Holds(new, k), direction)
            IN \A f \in FieldNames(o) \cap FieldNames(n) :
                  LET was == TypeTag(Descriptor(o, f))
                      is == TypeTag(Descriptor(n, f))
                  IN was # is =>
                        ExactlyOne(LAMBDA c : IsTypeChange(c, k, direction, f),
                                   IF \/ was = "integer" /\ is = "number"
                                      \/ was = "int" /\ is = "float"
                                      \/ was = "int" /\ is = "number"
                                   THEN WARNING ELSE BREAKING)

\* The reverse of a widening pair, number->integer, in a request.
C5_Witness ==
    /\ pc = "done"
    /\ \E k \in Identities(old) \cap Identities(new) :
          LET o == SchemaOf(Holds(old, k), "request")
              n == SchemaOf(Holds(new, k), "request")
          IN \E f \in FieldNames(o) \cap FieldNames(n) :
                /\ TypeTag(Descriptor(o, f)) = "number"
                /\ TypeTag(Descriptor(n, f)) = "integer"
                /\ \E i \in 1..Len(breaking) :
                      IsTypeChange(breaking[i], k, "request", f)

\* C6: diff_endpoints(S, S) returns two empty lists.
C6_NoOpDiff ==
    (pc = "done" /\ old = new) => (breaking = <<>> /\ non_breaking = <<>>)

\* A list of two endpoints with schemas and a summary, diffed against itself.
C6_Witness ==
    /\ pc = "done"
    /\ old = new
    /\ Len(old) = 2
    /\ \E i \in 1..Len(old) :
          /\ old[i].summary # None
          /\ old[i].response_schema # None

\* The summary changes a list reports for an identity, as positions.
SummaryChanges(changes, k) ==
    {i \in 1..Len(changes) :
        /\ changes[i].description[1] = "Summary changed for"
        /\ <<changes[i].endpoint_method, changes[i].endpoint_path>> = k}

\* C23: for an identity that old and new both hold, diff_endpoints reports
\* one INFO/MODIFIED summary change iff the summaries differ and the new one
\* is a non-empty text, and none otherwise: none when the new summary is
\* absent or empty, whatever the old one was; the breaking list never has a
\* summary change.
C23_SummaryChange ==
    pc = "done" =>
        \A k \in Identities(old) \cap Identities(new) :
            /\ SummaryChanges(breaking, k) = {}
            /\ \A i \in SummaryChanges(non_breaking, k) :
                   /\ non_breaking[i].severity = INFO
                   /\ non_breaking[i].change_kind = MODIFIED
            /\ Cardinality(SummaryChanges(non_breaking, k))
                   = IF /\ Holds(old, k).summary # Holds(new, k).summary
                        /\ Holds(new, k).summary \notin {None, Some("")}
                     THEN 1 ELSE 0

\* An endpoint whose summary is emptied and an endpoint whose summary is
\* reworded: one summary change, for the second.
C23_Witness ==
    /\ pc = "done"
    /\ Len(old) = 2
    /\ Len(new) = 2
    /\ Identities(old) = {<<"GET", "/x">>, <<"POST", "/x">>}
    /\ Identities(new) = Identities(old)
    /\ Holds(old, <<"GET", "/x">>).summary = Some("Get x")
    /\ Holds(new, <<"GET", "/x">>).summary = Some("")
    /\ Holds(old, <<"POST", "/x">>).summary = Some("Create")
    /\ Holds(new, <<"POST", "/x">>).summary = Some("Create x")
    /\ SummaryChanges(non_breaking, <<"GET", "/x">>) = {}
    /\ Cardinality(SummaryChanges(non_breaking, <<"POST", "/x">>)) = 1

-----------------------------------------------------------------------------
(* The schema resolver called on bounded inputs *)

Names == {"A", "B"}

Ref(n) == "$ref" :> <<prefix, n>>

AllOf(subs) == "allOf" :> subs

AnyOf(subs) == "anyOf" :> subs

OneOf(subs) == "oneOf" :> subs

Scalar == "type" :> "string"

\* An object with one required integer field.
Leaf ==
    ("type" :> "object") @@ ("properties" :> ("id" :> ("type" :> "integer")))
        @@ ("required" :> <<"id">>)

\* An object with the field id as an optional string and a second field.
Loose ==
    ("type" :> "object")
        @@ ("properties" :> (("id" :> ("type" :> "string"))
                                @@ ("child" :> ("type" :> "string"))))

\* An object whose one field refers to a definition.
Parent(n) == ("type" :> "object") @@ ("properties" :> ("child" :> Ref(n)))

\* What a named definition may be.
Bodies ==
    {Scalar, Leaf, Loose}
        \cup {Ref(n) : n \in Names}
        \cup {AllOf(<<Ref(n)>>) : n \in Names}
        \cup {AllOf(<<Leaf, Ref(n)>>) : n \in Names}
        \cup {AnyOf(<<Ref(n)>>) : n \in Names}
        \cup {AnyOf(<<Leaf, Ref(n)>>) : n \in Names}
        \cup {OneOf(<<Ref(n)>>) : n \in Names}
        \cup {Parent(n) : n \in Names}

\* The schema nodes resolved.
Nodes ==
    {Leaf, Ref("A"), Ref("B"), Ref("C"), "$ref" :> <<"other.yaml#/", "A">>,
     AllOf(<<Ref("A"), Ref("B")>>), AllOf(<<Loose, Ref("A"), Scalar>>),
     AnyOf(<<Ref("B"), Leaf>>), Parent("A")}

DiffIdle ==
    /\ old = <<>>
    /\ new = <<>>
    /\ breaking = <<>>
    /\ non_breaking = <<>>

InitResolve ==
    /\ schema \in Nodes
    /\ components_schemas \in [Names -> Bodies]
    /\ fields = EmptyDict
    /\ raised = FALSE
    /\ pc = "start"
    /\ DiffIdle
    /\ StoreIdle
    /\ RestIdle

\* The call _schema_to_fields(schema, components_schemas).
SchemaToFields ==
    /\ pc = "start"
    /\ LET r == _schema_to_fields(schema, components_schemas)
       IN /\ fields' = r.value
          /\ raised' = r.raised
    /\ pc' = "done"
    /\ UNCHANGED <<schema, components_schemas, diffVars, storeVars, restVars>>

NextResolve == SchemaToFields

SpecResolve == InitResolve /\ [][NextResolve]_vars

-----------------------------------------------------------------------------
(* Properties of the schema resolver *)

\* The reference in a node, if it is one.
Target(node) ==
    IF "$ref" \in DOMAIN node /\ node["$ref"][1] = prefix
    THEN {node["$ref"][2]} ELSE {}

\* The branches of a composition that stand for it: every branch of an
\* all-of, the first branch of an any-of or a one-of.
Branches(node) ==
    IF "allOf" \in DOMAIN node THEN Range(node["allOf"])
    ELSE IF "anyOf" \in DOMAIN node /\ node["anyOf"] # <<>> THEN {node["anyOf"][1]}
    ELSE IF "oneOf" \in DOMAIN node /\ node["oneOf"] # <<>> THEN {node["oneOf"][1]}
    ELSE {}

\* The definitions a definition refers to: the target of its direct reference,
\* or of the reference branches of its composition.
RefersTo(n) ==
    IF n \notin DOMAIN components_schemas THEN {}
    ELSE Target(components_schemas[n])
             \cup UNION {Target(b) : b \in Branches(components_schemas[n])}

RECURSIVE ReachableFrom(_, _)
ReachableFrom(frontier, seen) ==
    LET next == UNION {RefersTo(n) : n \in frontier} \ seen
    IN IF next = {} THEN seen ELSE ReachableFrom(next, seen \cup next)

\* The definitions reached from n in one step or more.
Reaches(n) == ReachableFrom({n}, {})

OnCycle(n) == n \in Reaches(n)

\* A cycle made of direct references only.
OnDirectCycle(n) ==
    /\ OnCycle(n)
    /\ \A m \in Reaches(n) : "$ref" \in DOMAIN components_schemas[m]

\* C8: when the schema is a reference to a definition that lies on a cycle of
\* the reference graph, through direct references or through the branches of a
\* composition, _schema_to_fields ends without raising and returns an empty
\* field table.
C8_CycleSafe ==
    (pc = "done" /\ \E n \in Target(schema) : OnCycle(n)) =>
        (~raised /\ fields = EmptyDict)

\* The part of C8 the code keeps: a cycle of direct references resolves to an
\* empty field table without raising.
C8_DirectCycleSafe ==
    (pc = "done" /\ \E n \in Target(schema) : OnDirectCycle(n)) =>
        (~raised /\ fields = EmptyDict)

\* A two-definition cycle of direct references, resolved.
C8_DirectWitness ==
    /\ pc = "done"
    /\ schema = Ref("A")
    /\ components_schemas["A"] = Ref("B")
    /\ components_schemas["B"] = Ref("A")

\* The call raises only when the references form a cycle: the depth bound cuts
\* no resolution that would have ended.
RaisedOnlyOnCycle ==
    raised => \E n \in Names : OnCycle(n)

\* The branches of an all-of node, each resolved on its own, and the field
\* table of each.
Resolved(i) == _resolve_schema(schema["allOf"][i], components_schemas, 0)

BranchFields(i) == _schema_to_fields(schema["allOf"][i], components_schemas)

\* The last branch that has the field.
LastWith(f) ==
    CHOOSE i \in 1..Len(schema["allOf"]) :
        /\ f \in DOMAIN BranchFields(i).value
        /\ \A j \in (i + 1)..Len(schema["allOf"]) :
               f \notin DOMAIN BranchFields(j).value

\* C21: the field table of an all-of node holds the fields of all its
\* branches; a field that several branches have has the type and default of
\* the last of them; and a field is required iff the required list of some
\* branch names it.
C21_AllOfMerge ==
    (pc = "done" /\ ~raised /\ "allOf" \in DOMAIN schema) =>
        /\ DOMAIN fields
               = UNION {DOMAIN BranchFields(i).value : i \in 1..Len(schema["allOf"])}
        /\ \A f \in DOMAIN fields :
               /\ fields[f].type = BranchFields(LastWith(f)).value[f].type
               /\ fields[f].default = BranchFields(LastWith(f)).value[f].default
               /\ fields[f].required
                      <=> \E i \in 1..Len(schema["allOf"]) :
                              f \in Range(Get(Resolved(i).value, "required", <<>>))

\* An all-of node whose branches both have the field id, as a required
\* integer in the first and as an optional string in the second: the table
\* has it as a required string, next to the field only the second has.
C21_Witness ==
    /\ pc = "done"
    /\ ~raised
    /\ schema = AllOf(<<Ref("A"), Ref("B")>>)
    /\ components_schemas["A"] = Leaf
    /\ components_schemas["B"] = Loose
    /\ DOMAIN fields = {"id", "child"}
    /\ fields["id"].type = "string"
    /\ fields["id"].required
    /\ ~fields["child"].required

-----------------------------------------------------------------------------
(* core/store.py *)
(*                                                                            *)
(* The connection is opened with PRAGMA foreign_keys=ON.  Every method takes  *)
(* the tables it reads and returns the table it writes; a method that can     *)
(* raise returns [raised, rows].  A path is the sequence of its components.   *)
(* Timestamps (registered_at, captured_at, created_at) are left out: no       *)
(* operation modelled here reads them.                                        *)

RepoInfo(name, path) == [name |-> name, path |-> path]

Consumer(consumer_repo, producer_repo, method, path) ==
    [consumer_repo |-> consumer_repo, producer_repo |-> producer_repo,
     endpoint_method |-> method, endpoint_path |-> path]

ContractVersion(repo_name, version_id, spec_hash, eps) ==
    [repo_name |-> repo_name, version_id |-> version_id,
     spec_hash |-> spec_hash, endpoints |-> eps]

ImpactReport(repo_name, report_id, breaking_changes, non_breaking_changes, consumer_count) ==
    [repo_name |-> repo_name, report_id |-> report_id,
     breaking_changes |-> breaking_changes,
     non_breaking_changes |-> non_breaking_changes,
     consumer_count |-> consumer_count]

\* The comparison of two strings, as a table: the strings that occur as a
\* method, a path or a repository name, in ascending order.
StringOrder == <<"/x", "/y", "GET", "POST", "billing", "web">>

Rank(x, order) == CHOOSE i \in 1..Len(order) : order[i] = x

RECURSIVE LexLess(_, _)
LexLess(a, b) ==
    IF a = <<>> \/ b = <<>>
    THEN a = <<>> /\ b # <<>>
    ELSE \/ Head(a) < Head(b)
         \/ Head(a) = Head(b) /\ LexLess(Tail(a), Tail(b))

\* A schema in which consumers references endpoints.
foreign_keys_ConsumersToEndpoints ==
    {<<"endpoints", "repos">>, <<"contract_versions", "repos">>,
     <<"impact_reports", "repos">>, <<"consumers", "endpoints">>}

\* The foreign keys of SCHEMA_SQL, each ON DELETE CASCADE: the table that
\* references and the table referenced.  consumers declares none.
foreign_keys ==
    {<<"endpoints", "repos">>, <<"contract_versions", "repos">>,
     <<"impact_reports", "repos">>}

\* The consumers table after the rows `gone` of endpoints were deleted.
CascadeToConsumers(edges, gone) ==
    IF <<"consumers", "endpoints">> \in foreign_keys
    THEN {c \in edges : \A r \in gone : ~(/\ c.producer_repo = r.repo_name
                                          /\ c.endpoint_method = r.method
                                          /\ c.endpoint_path = r.path)}
    ELSE edges

\* The rows of a cascade: those that reference the repository `name`.
References(rows, name) == {r \in rows : r.repo_name = name}

\* INSERT OR REPLACE INTO repos: replacing the row of a registered name deletes
\* it first, and the delete cascades to the three tables that reference it.
register_repo_tables(repo) ==
    LET replaced == repo.name \in DOMAIN repos
        cascade(rows) == IF replaced THEN rows \ References(rows, repo.name)
                         ELSE rows
    IN [repos |-> [n \in DOMAIN repos \cup {repo.name} |->
                      IF n = repo.name THEN repo ELSE repos[n]],
        endpoints |-> cascade(endpoints),
        versions |-> cascade(versions),
        reports |-> cascade(reports)]

\* DELETE FROM repos WHERE name=?, with its cascade.
unregister_repo_tables(name) ==
    [repos |-> [n \in DOMAIN repos \ {name} |-> repos[n]],
     endpoints |-> endpoints \ References(endpoints, name),
     versions |-> versions \ References(versions, name),
     reports |-> reports \ References(reports, name)]

\* The lookup that finds a repository under every name.
get_repo_Any(name) == Some(RepoInfo(name, <<"srv", name>>))

get_repo(name) == IF name \in DOMAIN repos THEN Some(repos[name]) ELSE None

\* INSERT OR REPLACE of each endpoint in turn: a row of the same
\* (repo_name, method, path) is replaced; a repo_name that is no registered
\* repository violates the foreign key and raises sqlite3.IntegrityError.
RECURSIVE UpsertAll(_, _)
UpsertAll(rows, eps) ==
    IF eps = <<>> THEN rows
    ELSE LET ep == Head(eps)
             kept == {r \in rows : ~(/\ r.repo_name = ep.repo_name
                                      /\ r.method = ep.method
                                      /\ r.path = ep.path)}
         IN UpsertAll(kept \cup {ep}, Tail(eps))

save_endpoints(rows, eps, registered) ==
    IF eps = <<>> THEN [raised |-> FALSE, rows |-> rows]
    ELSE IF \E i \in 1..Len(eps) : eps[i].repo_name \notin registered
         THEN [raised |-> TRUE, rows |-> rows]
         ELSE [raised |-> FALSE, rows |-> UpsertAll(rows, eps)]

\* SELECT ... WHERE repo_name=? ORDER BY method, path.
RECURSIVE OrderByMethodPath(_)
OrderByMethodPath(rows) ==
    IF rows = {} THEN <<>>
    ELSE LET key(r) == <<Rank(r.method, StringOrder), Rank(r.path, StringOrder)>>
             first == CHOOSE r \in rows :
                          \A q \in rows \ {r} : LexLess(key(r), key(q))
         IN <<first>> \o OrderByMethodPath(rows \ {first})

get_endpoints(rows, repo_name) ==
    OrderByMethodPath({r \in rows : r.repo_name = repo_name})

\* A delete that removes no row.
delete_endpoints_Nothing(rows, repo_name) == rows

delete_endpoints(rows, repo_name) == {r \in rows : r.repo_name # repo_name}

\* INSERT OR REPLACE INTO consumers: one row per edge.
add_consumer(edges, consumer) == edges \cup {consumer}

\* The rows of a query over consumers, in the order of consumer_repo.  The
\* query of get_consumers_of names no order; no property below reads the
\* position of a name.
RECURSIVE OrderByConsumer(_)
OrderByConsumer(edges) ==
    IF edges = {} THEN <<>>
    ELSE LET key(c) == <<Rank(c.consumer_repo, StringOrder),
                         Rank(c.endpoint_method, StringOrder),
                         Rank(c.endpoint_path, StringOrder)>>
             first == CHOOSE c \in edges :
                          \A d \in edges \ {c} : LexLess(key(c), key(d))
         IN <<first>> \o OrderByConsumer(edges \ {first})

get_consumers_of(edges, producer_repo, method, path) ==
    OrderByConsumer({c \in edges : /\ c.producer_repo = producer_repo
                                   /\ c.endpoint_method = method
                                   /\ c.endpoint_path = path})

get_consumers_of_repo(edges, producer_repo) ==
    OrderByConsumer({c \in edges : c.producer_repo = producer_repo})

\* INSERT INTO contract_versions.
save_version(rows, version) == rows \cup {version}

\* INSERT INTO impact_reports.
save_report(rows, report) == rows \cup {report}

-----------------------------------------------------------------------------
(* core/scanner.py: scan_repo and compute_spec_hash *)

\* Path(...).name: the last component of a path.
PathName(path) == path[Len(path)]

\* What a scan of a directory finds: the endpoints its files declare, in the
\* order found.  scan_openapi and scan_pydantic_models name each endpoint
\* after the directory, repo_path.name.
Declared(method, path, summary, request_schema, response_schema) ==
    [method |-> method, path |-> path, summary |-> summary,
     request_schema |-> request_schema, response_schema |-> response_schema]

scan_repo(repo_info, is_dir, declared) ==
    IF ~is_dir THEN <<>>
    ELSE [i \in 1..Len(declared) |->
             Endpoint(PathName(repo_info.path), declared[i].method,
                      declared[i].path, declared[i].summary,
                      declared[i].request_schema, declared[i].response_schema)]

\* The field descriptors _schema_to_fields writes.
Field(type, required) == [type |-> type, required |-> required, default |-> None]

ResponseFull ==
    Object(<<Member("id", Field("integer", TRUE)),
             Member("total", Field("number", TRUE))>>)

ResponseId == Object(<<Member("id", Field("integer", TRUE))>>)

RequestOptional == Object(<<Member("name", Field("string", FALSE))>>)

RequestRequired == Object(<<Member("name", Field("string", TRUE))>>)

\* The comparison of two schema texts, as a table: the texts that occur, in
\* ascending order of their characters ("" first; ',' before '}', 'f' before
\* 't', 'i' before 'n').
TextOrder ==
    <<EmptyText[1], ResponseFull[1], ResponseId[1], RequestOptional[1],
      RequestRequired[1]>>

\* `schema or ""`.
OrEmpty(schema_json) ==
    IF schema_json = None THEN EmptyText[1] ELSE schema_json[1]

CanonicalKey(t) ==
    <<Rank(t[1], StringOrder), Rank(t[2], StringOrder),
      Rank(t[3], TextOrder), Rank(t[4], TextOrder)>>

\* sorted(...) of a list of canonical tuples, by insertion.
RECURSIVE sorted(_)
sorted(ts) ==
    IF ts = <<>> THEN <<>>
    ELSE LET rest == sorted(Tail(ts))
             t == Head(ts)
             k == Cardinality({i \in 1..Len(rest) :
                      LexLess(CanonicalKey(rest[i]), CanonicalKey(t))})
         IN SubSeq(rest, 1, k) \o <<t>> \o SubSeq(rest, k + 1, Len(rest))

\* The digest of the list as it was passed, without sorted(...).
compute_spec_hash_Unsorted(eps) ==
    [sha256 |-> [i \in 1..Len(eps) |->
                    <<eps[i].method, eps[i].path,
                      OrEmpty(eps[i].request_schema),
                      OrEmpty(eps[i].response_schema)>>]]

\* The digest of the sorted methods and paths alone.
compute_spec_hash_NoSchemas(eps) ==
    [sha256 |-> sorted([i \in 1..Len(eps) |->
                           <<eps[i].method, eps[i].path, EmptyText[1], EmptyText[1]>>])]

\* The digest of tuples that carry the summary as well.
compute_spec_hash_WithSummary(eps) ==
    [sha256 |-> sorted([i \in 1..Len(eps) |->
                           <<eps[i].method, eps[i].path,
                             OrEmpty(eps[i].request_schema),
                             OrEmpty(eps[i].response_schema), eps[i].summary>>])]

\* SHA-256 of the serialised canonical list.  The digest is written as the
\* list it is taken of: two lists have the same digest iff they are equal.
compute_spec_hash(eps) ==
    LET canonical == sorted([i \in 1..Len(eps) |->
                                <<eps[i].method, eps[i].path,
                                  OrEmpty(eps[i].request_schema),
                                  OrEmpty(eps[i].response_schema)>>])
    IN [sha256 |-> canonical]

-----------------------------------------------------------------------------
(* core/scanner.py: scan_openapi and scan_pydantic_models *)
(*                                                                            *)
(* A value the code tests with isinstance(value, dict), or calls .get or      *)
(* .items on, is Dict(items), the sequence of its <<key, value>> items in     *)
(* written order, or Other: a list, a string, a number or None.  A schema is  *)
(* a node of the resolver above.  A call returns [raised, error, value].      *)

Dict(items) == [py |-> "dict", items |-> items]

Other == [py |-> "other"]

IsDict(v) == v.py = "dict"

Has(v, key) == \E i \in 1..Len(v.items) : v.items[i][1] = key

\* dict.get(key, default).
PyGet(v, key, default) ==
    IF Has(v, key)
    THEN v.items[CHOOSE i \in 1..Len(v.items) : v.items[i][1] = key][2]
    ELSE default

Raised(error) == [raised |-> TRUE, error |-> error, value |-> <<>>]

Returned(value) == [raised |-> FALSE, error |-> "", value |-> value]

\* The results of the iterations of a loop that extends a list: the first
\* exception ends the loop, otherwise the lists are joined in order.
RECURSIVE Extend(_)
Extend(rs) ==
    IF rs = <<>> THEN Returned(<<>>)
    ELSE IF Head(rs).raised THEN Head(rs)
    ELSE IF Extend(Tail(rs)).raised THEN Extend(Tail(rs))
    ELSE Returned(Head(rs).value \o Extend(Tail(rs)).value)

\* The order of the properties of a field table.  A dict keeps the order its
\* keys were written in; the tables are dumped in this fixed order.
PropertyOrder == <<"id", "child">>

\* json.dumps(fields) if fields else None.
DumpsOrNone(table) ==
    IF DOMAIN table = {} THEN None
    ELSE Object([i \in 1..Len(SelectSeq(PropertyOrder, LAMBDA k : k \in DOMAIN table)) |->
                    Member(SelectSeq(PropertyOrder, LAMBDA k : k \in DOMAIN table)[i],
                           table[SelectSeq(PropertyOrder, LAMBDA k : k \in DOMAIN table)[i]])])

\* The result of _schema_to_fields, its RecursionError passed on.
ToFields(r) == IF r.raised THEN Raised("RecursionError") ELSE Returned(r.value)

\* content -> application/json -> schema -> _schema_to_fields, of a request
\* body or of a response.
JsonSchema(json_content, components) ==
    IF ~IsDict(json_content) THEN Raised("AttributeError")
    ELSE ToFields(_schema_to_fields(PyGet(json_content, "schema", EmptyDict),
                                    components))

Content(content, components) ==
    IF ~IsDict(content) THEN Raised("AttributeError")
    ELSE JsonSchema(PyGet(content, "application/json", Dict(<<>>)),
                    components)

RequestBody(request_body, components) ==
    IF ~IsDict(request_body) THEN Returned(EmptyDict)
    ELSE Content(PyGet(request_body, "content", Dict(<<>>)), components)

_extract_request_schema(operation, components) ==
    RequestBody(PyGet(operation, "requestBody", Dict(<<>>)), components)

\* One turn of the loop of _extract_response_schema: the fields of this
\* response when there are any, else what the later status codes give.
FirstFields(r, later) ==
    IF r.raised THEN r
    ELSE IF DOMAIN r.value # {} THEN r
    ELSE later

RECURSIVE Responses(_, _, _)
Responses(responses, status_codes, components) ==
    IF status_codes = <<>> THEN Returned(EmptyDict)
    ELSE IF ~IsDict(PyGet(responses, Head(status_codes), Dict(<<>>)))
    THEN Responses(responses, Tail(status_codes), components)
    ELSE FirstFields(
             Content(PyGet(PyGet(responses, Head(status_codes), Dict(<<>>)),
                           "content", Dict(<<>>)), components),
             Responses(responses, Tail(status_codes), components))

_extract_response_schema(operation, components) ==
    IF ~IsDict(PyGet(operation, "responses", Dict(<<>>)))
    THEN Raised("AttributeError")
    ELSE Responses(PyGet(operation, "responses", Dict(<<>>)),
                   <<"200", "201", "202">>, components)

\* The methods looked up in a path item, and method.upper() of each.
methods == <<"get", "post", "put", "patch", "delete", "head", "options">>

upper == <<"GET", "POST", "PUT", "PATCH", "DELETE", "HEAD", "OPTIONS">>

\* `summary or None`.
OrNone(summary) == IF summary = "" THEN None ELSE Some(summary)

\* endpoints.append(Endpoint(...)) for one operation.
AppendEndpoint(repo_name, method, path_str, summary, request_schema, response_schema) ==
    IF request_schema.raised THEN request_schema
    ELSE IF response_schema.raised THEN response_schema
    ELSE Returned(<<Endpoint(repo_name, method, path_str, OrNone(summary),
                             DumpsOrNone(request_schema.value),
                             DumpsOrNone(response_schema.value))>>)

Operation(repo_name, method, path_str, operation, components) ==
    IF ~IsDict(operation) THEN Returned(<<>>)
    ELSE AppendEndpoint(repo_name, method, path_str, PyGet(operation, "summary", ""),
                _extract_request_schema(operation, components),
                _extract_response_schema(operation, components))

PathItem(repo_name, path_str, path_item, components) ==
    IF ~IsDict(path_item) THEN Returned(<<>>)
    ELSE Extend([m \in 1..Len(methods) |->
                    Operation(repo_name, upper[m], path_str,
                              PyGet(path_item, methods[m], Other),
                              components)])

Paths(repo_name, paths, components) ==
    IF ~IsDict(paths) THEN Raised("AttributeError")
    ELSE Extend([i \in 1..Len(paths.items) |->
                    PathItem(repo_name, paths.items[i][1], paths.items[i][2],
                             components)])

Components(repo_name, spec, components) ==
    IF ~IsDict(components) THEN Raised("AttributeError")
    ELSE Paths(repo_name, PyGet(spec, "paths", Dict(<<>>)),
               PyGet(components, "schemas", EmptyDict))

\* A specification document: one that yaml.safe_load rejects, or the value
\* it loads.
Malformed == [parses |-> FALSE]

Document(spec) == [parses |-> TRUE, spec |-> spec]

_parse_openapi_file(spec_file, repo_name) ==
    IF ~spec_file.parses THEN Raised("YAMLError")
    ELSE IF ~IsDict(spec_file.spec) THEN Returned(<<>>)
    ELSE Components(repo_name, spec_file.spec,
                    PyGet(spec_file.spec, "components", Dict(<<>>)))

\* The files matched by the patterns, in the order found.
scan_openapi(repo_name, spec_files) ==
    Extend([i \in 1..Len(spec_files) |->
               _parse_openapi_file(spec_files[i], repo_name)])

\* A statement of a class body: an annotated assignment to a name, a
\* docstring expression, or another statement.
Ann(name, type, has_default) ==
    [stmt |-> "AnnAssign", name |-> name, type |-> type, has_default |-> has_default]

Doc(text) == [stmt |-> "Expr", text |-> text]

Pass == [stmt |-> "Pass"]

\* A node of the tree: a class definition (its name, its bases, its body) or
\* another node.  A base is the name it is written as, or the attribute of a
\* dotted name.
Base(kind, name) == [kind |-> kind, name |-> name]

ClassDef(name, bases, body) ==
    [node |-> "ClassDef", name |-> name, bases |-> bases, body |-> body]

Module == [node |-> "Module"]

_inherits_basemodel(node) ==
    \E i \in 1..Len(node.bases) :
        /\ node.bases[i].kind \in {"Name", "Attribute"}
        /\ node.bases[i].name = "BaseModel"

\* The dict of the fields of a class body, as the members json.dumps writes:
\* a field is written where its name first occurs, with its last descriptor.
_extract_class_fields(node) ==
    LET anns == SelectSeq(node.body, LAMBDA item : item.stmt = "AnnAssign")
        firsts == SelectSeq([i \in 1..Len(anns) |-> i], LAMBDA i :
                      \A j \in 1..(i - 1) : anns[j].name # anns[i].name)
        final(name) == anns[CHOOSE i \in 1..Len(anns) :
                               /\ anns[i].name = name
                               /\ \A j \in (i + 1)..Len(anns) : anns[j].name # name]
    IN [k \in 1..Len(firsts) |->
           Member(anns[firsts[k]].name,
                  Field(final(anns[firsts[k]].name).type,
                        ~final(anns[firsts[k]].name).has_default))]

\* The docstring of a class, given without surrounding white space.
_get_docstring(node) ==
    IF node.body # <<>> /\ node.body[1].stmt = "Expr"
    THEN Some(node.body[1].text)
    ELSE None

\* The endpoint of one node of ast.walk, if it is a model class with fields.
ModelClass(repo_name, module_path, node) ==
    IF node.node # "ClassDef" THEN <<>>
    ELSE IF ~_inherits_basemodel(node) THEN <<>>
    ELSE IF _extract_class_fields(node) = <<>> THEN <<>>
    ELSE <<Endpoint(repo_name, "SCHEMA", <<module_path, ".", node.name>>,
                    _get_docstring(node), None,
                    Object(_extract_class_fields(node)))>>

\* A source file: how read_text and ast.parse end ("ok" or the exception
\* raised: ast.parse raises RecursionError on an expression nested too
\* deeply), its dotted module path and the nodes of its tree in the order of
\* ast.walk.
Source(parse, module_path, nodes) ==
    [parse |-> parse, module_path |-> module_path, nodes |-> nodes]

_parse_pydantic_file(py_file, repo_name) ==
    IF py_file.parse \in {"SyntaxError", "UnicodeDecodeError"} THEN Returned(<<>>)
    ELSE IF py_file.parse # "ok" THEN Raised(py_file.parse)
    ELSE Returned(Concat([i \in 1..Len(py_file.nodes) |->
                     ModelClass(repo_name, py_file.module_path, py_file.nodes[i])]))

\* The *.py files under the scan directories that exist, in the order found.
scan_pydantic_models(repo_name, py_files) ==
    Extend([i \in 1..Len(py_files) |->
               _parse_pydantic_file(py_files[i], repo_name)])

OPENAPI == "openapi"

PYDANTIC == "pydantic"

\* A directory: whether the registered path is one, the contract type of the
\* registration (None when not given), the specification documents and the
\* source files in it.
Tree(path, is_dir, contract_type, spec_files, py_files) ==
    [path |-> path, is_dir |-> is_dir, contract_type |-> contract_type,
     spec_files |-> spec_files, py_files |-> py_files]

\* endpoints.extend(scan_pydantic_models(...)) after scan_openapi.
Both(openapi, pydantic) ==
    IF openapi.raised THEN openapi
    ELSE IF pydantic.raised THEN pydantic
    ELSE Returned(openapi.value \o pydantic.value)

\* scan_repo, with the scanners it calls run on the files of the directory;
\* both name the endpoints after the last component of the path.
scan_repo_tree(t) ==
    IF ~t.is_dir THEN Returned(<<>>)
    ELSE IF t.contract_type = Some(OPENAPI)
    THEN scan_openapi(PathName(t.path), t.spec_files)
    ELSE IF t.contract_type = Some(PYDANTIC)
    THEN scan_pydantic_models(PathName(t.path), t.py_files)
    ELSE Both(scan_openapi(PathName(t.path), t.spec_files),
              scan_pydantic_models(PathName(t.path), t.py_files))

-----------------------------------------------------------------------------
(* core/registry.py *)

\* The validation that accepts any (method, path) of a producer that has a
\* stored endpoint.
register_consumer_AnyEndpoint(consumer_repo, producer_repo, method, path) ==
    IF get_endpoints(endpoints, producer_repo) = <<>> THEN None
    ELSE Some(Consumer(consumer_repo, producer_repo, method, path))

\* register_consumer: the edge to add, or None when the producer has no
\* stored endpoint (method, path) and the call raises ValueError.
register_consumer(consumer_repo, producer_repo, method, path) ==
    LET eps == get_endpoints(endpoints, producer_repo)
        matching == SelectSeq(eps, LAMBDA ep : ep.method = method /\ ep.path = path)
    IN IF matching = <<>> THEN None
       ELSE Some(Consumer(consumer_repo, producer_repo, method, path))

ConsumerNames(cs) == [i \in 1..Len(cs) |-> cs[i].consumer_repo]

\* The lookup whose fallback takes every consumer of the repository.
get_affected_consumers_AnyEdge(edges, breaking_changes) ==
    [change \in Range(breaking_changes) |->
        IF get_consumers_of(edges, change.repo_name, change.endpoint_method,
                            change.endpoint_path) = <<>>
        THEN ConsumerNames(get_consumers_of_repo(edges, change.repo_name))
        ELSE ConsumerNames(get_consumers_of(edges, change.repo_name,
                               change.endpoint_method, change.endpoint_path))]

\* get_affected_consumers: a dict from each breaking change to the names of
\* the consumers of its endpoint.
get_affected_consumers(edges, breaking_changes) ==
    [change \in Range(breaking_changes) |->
        LET consumer_names ==
                ConsumerNames(get_consumers_of(edges, change.repo_name,
                                  change.endpoint_method, change.endpoint_path))
            repo_consumers == get_consumers_of_repo(edges, change.repo_name)
        IN IF consumer_names = <<>>
           THEN ConsumerNames(SelectSeq(repo_consumers, LAMBDA c :
                    /\ c.endpoint_method = change.endpoint_method
                    /\ c.endpoint_path = change.endpoint_path))
           ELSE consumer_names]

-----------------------------------------------------------------------------
(* core/impact.py *)

\* len(all_consumers) with the names counted once per change.
consumer_count_PerChange(affected_map) ==
    Cardinality({<<c, n>> \in (DOMAIN affected_map) \X Range(StringOrder) :
                    n \in Range(affected_map[c])})

\* len(all_consumers): the names of all lists, in one set.
consumer_count(affected_map) ==
    Cardinality(UNION {Range(affected_map[c]) : c \in DOMAIN affected_map})

\* The class impact.py and registry.py import as BreakingChange;
\* models/contracts.py defines the class of these fields as ContractChange.
BreakingChange(repo_name, method, path, change_kind, severity, description, affected_consumers) ==
    [ContractChange(repo_name, method, path, change_kind, severity, description)
        EXCEPT !.affected_consumers = affected_consumers]

\* What a call of assess_impact leaves behind: how it ended, the tables it
\* wrote, the list it scanned and the report it returned.
Ended(outcome, vs, eps, rs, n, scanned, report) ==
    [outcome |-> outcome, versions |-> vs, endpoints |-> eps, reports |-> rs,
     ids |-> n, scanned |-> scanned, report |-> report]

\* Steps 6 and 7: save the version, replace the stored endpoints, save the
\* report.  save_endpoints raising ends the call after the version was saved
\* and the old rows were deleted.
Persist(version, new_endpoints, deleted, saved, report) ==
    IF saved.raised
    THEN Ended("IntegrityError", save_version(versions, version), deleted,
               reports, ids + 1, new_endpoints, None)
    ELSE Ended("ok", save_version(versions, version), saved.rows,
               save_report(reports, report), ids + 1, new_endpoints,
               Some(report))

\* Step 5: attach the consumer names to each breaking change and count the
\* distinct names.
Attach(repo_name, new_endpoints, breaking_changes, non_breaking_changes, affected_map) ==
    Persist(ContractVersion(repo_name, ids + 1,
                            compute_spec_hash(new_endpoints), new_endpoints),
            new_endpoints,
            delete_endpoints(endpoints, repo_name),
            save_endpoints(delete_endpoints(endpoints, repo_name),
                           new_endpoints, DOMAIN repos),
            ImpactReport(repo_name, ids + 1,
                [i \in 1..Len(breaking_changes) |->
                    BreakingChange(breaking_changes[i].repo_name,
                        breaking_changes[i].endpoint_method,
                        breaking_changes[i].endpoint_path,
                        breaking_changes[i].change_kind,
                        breaking_changes[i].severity,
                        breaking_changes[i].description,
                        Get(affected_map, breaking_changes[i], <<>>))],
                non_breaking_changes, consumer_count(affected_map)))

\* Step 4: look up the consumers of each breaking change.
Affected(repo_name, new_endpoints, d) ==
    Attach(repo_name, new_endpoints, d[1], d[2],
           get_affected_consumers(consumers, d[1]))

\* Steps 1 to 3: load the stored endpoints, scan, diff.
Diff(repo_name, old_endpoints, new_endpoints) ==
    Affected(repo_name, new_endpoints,
             diff_endpoints(old_endpoints, new_endpoints))

assess_impact(repo_name, is_dir, declared) ==
    IF get_repo(repo_name) = None
    THEN Ended("ValueError", versions, endpoints, reports, ids, <<>>, None)
    ELSE Diff(repo_name, get_endpoints(endpoints, repo_name),
              scan_repo(get_repo(repo_name)[1], is_dir, declared))

\* What a call of check_breaking leaves behind: how it ended, the list it
\* scanned and the list it returned.
Checked(outcome, scanned, changes) ==
    [outcome |-> outcome, scanned |-> scanned, changes |-> changes]

\* The returned list with the non-breaking changes of the diff left in.
CheckDiff_All(new_endpoints, d, affected_map) ==
    Checked("ok", new_endpoints,
        [i \in 1..Len(d[1] \o d[2]) |->
            BreakingChange((d[1] \o d[2])[i].repo_name,
                (d[1] \o d[2])[i].endpoint_method,
                (d[1] \o d[2])[i].endpoint_path, (d[1] \o d[2])[i].change_kind,
                (d[1] \o d[2])[i].severity, (d[1] \o d[2])[i].description,
                Get(affected_map, (d[1] \o d[2])[i], <<>>))])

\* check_breaking after the diff: the breaking list, each change with its
\* consumer names attached.
CheckDiff(new_endpoints, d, affected_map) ==
    Checked("ok", new_endpoints,
        [i \in 1..Len(d[1]) |->
            BreakingChange(d[1][i].repo_name, d[1][i].endpoint_method,
                d[1][i].endpoint_path, d[1][i].change_kind, d[1][i].severity,
                d[1][i].description, Get(affected_map, d[1][i], <<>>))])

CheckScan(new_endpoints, d) ==
    CheckDiff(new_endpoints, d, get_affected_consumers(consumers, d[1]))

CheckLoad(old_endpoints, new_endpoints) ==
    CheckScan(new_endpoints, diff_endpoints(old_endpoints, new_endpoints))

check_breaking(repo_name, is_dir, declared) ==
    IF get_repo(repo_name) = None
    THEN Checked("ValueError", <<>>, <<>>)
    ELSE CheckLoad(get_endpoints(endpoints, repo_name),
                   scan_repo(get_repo(repo_name)[1], is_dir, declared))

-----------------------------------------------------------------------------
(* The store under a bounded sequence of calls *)

\* How many calls of assess_impact a run makes.
MaxCalls == 2

\* How many consumer edges a run registers.
MaxConsumers == 2

\* Two registrations of the same directory: one under the name of the
\* directory, one under another name.
Registrations ==
    {RepoInfo("user-svc", <<"srv", "user-svc">>),
     RepoInfo("user-service", <<"srv", "user-svc">>)}

RepoNames == {r.name : r \in Registrations}

ConsumerRepos == {"billing", "web"}

GetX == Declared("GET", "/x", Some("Get x"), None, ResponseFull)

GetXNarrow == Declared("GET", "/x", Some("Get x"), None, ResponseId)

PostX == Declared("POST", "/x", None, RequestOptional, None)

PostXStrict == Declared("POST", "/x", None, RequestRequired, None)

\* The contents of the directory at the time of a scan.
ScanLists ==
    {<<>>, <<GetX>>, <<PostX, GetX>>, <<GetXNarrow, PostX>>,
     <<GetXNarrow, PostXStrict>>}

\* A scan: whether the registered path is a directory, and what it declares.
Scans == {<<TRUE, declared>> : declared \in ScanLists} \cup {<<FALSE, <<>>>>}

Called(op, repo_name, outcome, scanned, report) ==
    [op |-> op, repo_name |-> repo_name, outcome |-> outcome,
     scanned |-> scanned, report |-> report]

Init ==
    /\ StoreIdle
    /\ RestIdle
    /\ DiffIdle
    /\ ResolveIdle
    /\ pc = "store"

\* The tables after a call that wrote repos and its cascade.
Written(op, name, t) ==
    /\ repos' = t.repos
    /\ endpoints' = t.endpoints
    /\ versions' = t.versions
    /\ reports' = t.reports
    /\ call' = Called(op, name, "ok", <<>>, None)
    /\ UNCHANGED <<consumers, ids, diffVars, resolveVars, restVars, pc>>

RegisterRepo ==
    \E repo \in Registrations :
        Written("register_repo", repo.name, register_repo_tables(repo))

UnregisterRepo ==
    \E name \in RepoNames :
        Written("unregister_repo", name, unregister_repo_tables(name))

\* The tables after a call of register_consumer: the edge added, or the
\* ValueError raised.
Registered(asked, consumer) ==
    /\ IF consumer = None
       THEN /\ consumers' = consumers
            /\ call' = Called("register_consumer", asked.producer_repo, "ValueError", <<>>, None)
                           @@ [asked |-> asked, returned |-> None]
       ELSE /\ consumers' = add_consumer(consumers, consumer[1])
            /\ call' = Called("register_consumer", asked.producer_repo, "ok", <<>>, None)
                           @@ [asked |-> asked, returned |-> consumer]
    /\ UNCHANGED <<repos, endpoints, versions, reports, ids, diffVars, resolveVars, restVars, pc>>

RegisterConsumer ==
    \E consumer_repo \in ConsumerRepos, producer_repo \in RepoNames :
    \E method \in {"GET", "POST"}, path \in {"/x"} :
        /\ Cardinality(consumers) < MaxConsumers
        /\ Registered(Consumer(consumer_repo, producer_repo, method, path),
                      register_consumer(consumer_repo, producer_repo, method, path))

\* The tables after a call of assess_impact that ended as e.
Assessment(repo_name, e) ==
    /\ versions' = e.versions
    /\ endpoints' = e.endpoints
    /\ reports' = e.reports
    /\ ids' = e.ids
    /\ consumers' = IF e.outcome = "ValueError" THEN consumers
                    ELSE CascadeToConsumers(consumers, References(endpoints, repo_name))
    /\ call' = Called("assess_impact", repo_name, e.outcome, e.scanned, e.report)
    /\ UNCHANGED <<repos, diffVars, resolveVars, restVars, pc>>

AssessImpact ==
    \E repo_name \in RepoNames, scan \in Scans :
        /\ ids < MaxCalls
        /\ Assessment(repo_name, assess_impact(repo_name, scan[1], scan[2]))

\* The store after a call of check_breaking that ended as e: no method of
\* the store that writes is called.
Check(repo_name, e) ==
    /\ call' = Called("check_breaking", repo_name, e.outcome, e.scanned, None)
                   @@ [changes |-> e.changes]
    /\ UNCHANGED <<repos, endpoints, consumers, versions, reports, ids,
                   diffVars, resolveVars, restVars, pc>>

CheckBreaking ==
    \E repo_name \in RepoNames, scan \in Scans :
        Check(repo_name, check_breaking(repo_name, scan[1], scan[2]))

Next ==
    \/ RegisterRepo
    \/ UnregisterRepo
    \/ RegisterConsumer
    \/ AssessImpact
    \/ CheckBreaking

Spec == Init /\ [][Next]_vars

-----------------------------------------------------------------------------
(* The scanners run on bounded directories *)

\* The most specification documents, and the most source files, of a
\* directory.
MaxFiles == 2

MaxSources == 2

\* The responses of an operation that answers 200 with a JSON body.
Responding(node) ==
    Dict(<< <<"200", Dict(<< <<"content",
        Dict(<< <<"application/json", Dict(<< <<"schema", node>> >>)>> >>)>> >>)>> >>)

\* The request body of an operation that takes a JSON body.
Taking(node) ==
    Dict(<< <<"content",
        Dict(<< <<"application/json", Dict(<< <<"schema", node>> >>)>> >>)>> >>)

GetOperation == Dict(<< <<"summary", "list">>, <<"responses", Responding(Leaf)>> >>)

PostOperation == Dict(<< <<"requestBody", Taking(Ref("A"))>> >>)

\* GET /x alone.
DocGetX ==
    Document(Dict(<< <<"paths", Dict(<< <<"/x", Dict(<< <<"get", GetOperation>> >>)>> >>)>> >>))

\* GET /x and POST /y, the body of the latter a named definition.
DocGetXPostY ==
    Document(Dict(<< <<"components", Dict(<< <<"schemas", "A" :> Leaf>> >>)>>,
                     <<"paths", Dict(<< <<"/x", Dict(<< <<"get", GetOperation>> >>)>>,
                                        <<"/y", Dict(<< <<"post", PostOperation>> >>)>> >>)>> >>))

\* A document whose top level is a list.
DocTopList == Document(Other)

\* A document whose components section is a list.
DocComponentsList ==
    Document(Dict(<< <<"components", Other>>,
                     <<"paths", Dict(<< <<"/x", Dict(<< <<"get", GetOperation>> >>)>> >>)>> >>))

\* A document whose paths section is a list.
DocPathsList == Document(Dict(<< <<"paths", Other>> >>))

\* A document with a path item and an operation that are lists.
DocItemList ==
    Document(Dict(<< <<"paths", Dict(<< <<"/x", Other>>,
                                        <<"/y", Dict(<< <<"get", Other>>,
                                                        <<"post", PostOperation>> >>)>> >>)>> >>))

\* A document with an operation whose responses are a list.
DocResponsesList ==
    Document(Dict(<< <<"paths", Dict(<< <<"/x",
        Dict(<< <<"get", Dict(<< <<"responses", Other>> >>)>> >>)>> >>)>> >>))

Documents ==
    {Malformed, DocTopList, Document(Dict(<<>>)), DocComponentsList,
     DocPathsList, DocItemList, DocResponsesList, DocGetX, DocGetXPostY}

Named == <<Base("Name", "BaseModel")>>

Dotted == <<Base("Attribute", "BaseModel"), Base("Name", "Mixin")>>

\* class A(BaseModel) with a docstring and the field id written twice, a
\* model class without a field, and a class that is not a model.
SourceA ==
    Source("ok", "src.a",
           <<Module,
             ClassDef("A", Named, <<Doc("doc"), Ann("id", "int", FALSE),
                                    Ann("id", "str", TRUE)>>),
             ClassDef("Z", Named, <<Pass>>),
             ClassDef("H", <<Base("Name", "object")>>, <<Ann("id", "int", FALSE)>>)>>)

\* Two classes named A in one file, the second defined inside a function.
SourceTwice ==
    Source("ok", "src.a",
           <<Module,
             ClassDef("A", Dotted, <<Ann("id", "int", FALSE)>>),
             ClassDef("A", Named, <<Ann("name", "str", FALSE), Pass>>)>>)

\* class B(BaseModel) in another module.
SourceB ==
    Source("ok", "src.b", <<Module, ClassDef("B", Named, <<Ann("id", "int", FALSE)>>)>>)

\* A file that is not Python, a file that is not UTF-8, and a file with an
\* expression of a hundred thousand terms.
SourceSyntax == Source("SyntaxError", "src.bad", <<>>)

SourceDecode == Source("UnicodeDecodeError", "src.latin", <<>>)

SourceDeep == Source("RecursionError", "src.deep", <<>>)

Sources == {SourceA, SourceTwice, SourceB, SourceSyntax, SourceDecode, SourceDeep}

\* The sequences of at most n members of S.
UpTo(S, n) == UNION {[1..k -> S] : k \in 0..n}

ScannedPath == <<"srv", "user-svc">>

\* The directory scanned: one with files in it, registered with a contract
\* type or without, or a path that is not a directory.
InitScan ==
    /\ tree \in {Tree(ScannedPath, TRUE, contract_type, spec_files, py_files) :
                    contract_type \in {None, Some(OPENAPI), Some(PYDANTIC)},
                    spec_files \in UpTo(Documents, MaxFiles),
                    py_files \in UpTo(Sources, MaxSources)}
                   \cup {Tree(ScannedPath, FALSE, None, <<>>, <<>>)}
    /\ found = <<>>
    /\ failed = ""
    /\ pc = "start"
    /\ left = <<>>
    /\ right = <<>>
    /\ digests = <<>>
    /\ procs = <<>>
    /\ DiffIdle
    /\ ResolveIdle
    /\ StoreIdle

\* What the caller of scan_repo is left with: the list returned, or the
\* exception.
Scanned(r) ==
    /\ found' = r.value
    /\ failed' = r.error
    /\ pc' = "done"
    /\ UNCHANGED <<tree, diffVars, resolveVars, storeVars, hashVars, procs>>

\* The call scan_repo(repo_info, config) on the directory.
ScanRepo ==
    /\ pc = "start"
    /\ Scanned(scan_repo_tree(tree))

NextScan == ScanRepo

SpecScan == InitScan /\ [][NextScan]_vars

-----------------------------------------------------------------------------
(* Properties of the orchestrator, read off the tables and the last call *)

\* The last call was assess_impact and it returned a report.
Assessed == call.op = "assess_impact" /\ call.outcome = "ok"

\* The names listed by the breaking changes of a report.
Listed(report) ==
    UNION {Range(report.breaking_changes[i].affected_consumers) :
              i \in 1..Len(report.breaking_changes)}

\* C7: when assess_impact(P) returns a report, every breaking change of the
\* report on an endpoint (m, p) lists every consumer registered against P's
\* (m, p), and consumer_count is the number of distinct names over the
\* affected_consumers of all breaking changes of the report.
C7_ConsumerPropagation ==
    Assessed =>
        LET report == call.report[1]
            bcs == report.breaking_changes
        IN /\ \A i \in 1..Len(bcs) : \A c \in consumers :
                  (/\ c.producer_repo = call.repo_name
                   /\ c.endpoint_method = bcs[i].endpoint_method
                   /\ c.endpoint_path = bcs[i].endpoint_path)
                      => c.consumer_repo \in Range(bcs[i].affected_consumers)
           /\ report.consumer_count = Cardinality(Listed(report))

\* A report with a removed endpoint and a breaking field-level change, the
\* same consumer listed by two breaking changes and counted once, next to a
\* second consumer.
C7_Witness ==
    /\ Assessed
    /\ LET bcs == call.report[1].breaking_changes
       IN /\ \E i, j \in 1..Len(bcs) :
                 /\ i # j
                 /\ "billing" \in Range(bcs[i].affected_consumers)
                 /\ "billing" \in Range(bcs[j].affected_consumers)
          /\ call.report[1].consumer_count = 1

C7_WitnessTwoConsumers ==
    /\ Assessed
    /\ call.report[1].consumer_count = 2
    /\ \E i \in 1..Len(call.report[1].breaking_changes) :
           call.report[1].breaking_changes[i].change_kind = REMOVED
    /\ \E i \in 1..Len(call.report[1].breaking_changes) :
           call.report[1].breaking_changes[i].change_kind = MODIFIED

\* An endpoint as it would be stored under the name `repo_name`.
Under(repo_name, ep) ==
    Endpoint(repo_name, ep.method, ep.path, ep.summary, ep.request_schema,
             ep.response_schema)

\* C9: after assess_impact(R) returns, get_endpoints(R) is exactly the set the
\* scan produced, each endpoint stored under the registered name R.
C9_StoredIsScanned ==
    Assessed =>
        Range(get_endpoints(endpoints, call.repo_name)) =
            {Under(call.repo_name, call.scanned[i]) : i \in 1..Len(call.scanned)}

\* The same, for a repository registered under the name of its directory.
C9_NamedAfterDirectory ==
    (Assessed /\ PathName(repos[call.repo_name].path) = call.repo_name) =>
        Range(get_endpoints(endpoints, call.repo_name)) = Range(call.scanned)

\* A step in which assess_impact returns a report.
AssessedStep == ids' # ids /\ call'.op = "assess_impact" /\ call'.outcome = "ok"

\* The step adds one version and one report, those of the call.
OneSnapshot ==
    /\ \E v \in versions' \ versions :
           /\ versions' = versions \cup {v}
           /\ v.repo_name = call'.repo_name
           /\ v.endpoints = call'.scanned
           /\ v.spec_hash = compute_spec_hash(call'.scanned)
    /\ \E r \in reports' \ reports :
           /\ reports' = reports \cup {r}
           /\ call'.report = Some(r)

\* C10: every successful assess_impact persists exactly one new version (the
\* scanned endpoints, their hash) and exactly one new report, and every step
\* of every operation keeps each version and each report persisted before it.
C10_AppendOnly ==
    [][/\ AssessedStep => OneSnapshot
       /\ versions \subseteq versions'
       /\ reports \subseteq reports']_vars

\* The first half alone: one new version and one new report per successful
\* call.
C10_OneSnapshotPerCall == [][AssessedStep => OneSnapshot]_vars

\* A second successful call whose scan found no change: two versions of one
\* hash, and a report without changes.
C10_NoChangeWitness ==
    /\ Assessed
    /\ call.report[1].breaking_changes = <<>>
    /\ call.report[1].non_breaking_changes = <<>>
    /\ call.scanned # <<>>
    /\ \E v, w \in versions :
           /\ v # w
           /\ v.repo_name = w.repo_name
           /\ v.spec_hash = w.spec_hash
\* The tables a call may write.
tables == <<repos, endpoints, consumers, versions, reports>>

\* The names of the consumers registered against (P, m, p).
EdgeNames(producer_repo, method, path) ==
    {c.consumer_repo : c \in {e \in consumers :
                                 /\ e.producer_repo = producer_repo
                                 /\ e.endpoint_method = method
                                 /\ e.endpoint_path = path}}

\* C11: a call of check_breaking leaves the stored endpoints, versions,
\* reports and consumer edges as they were, and the list it returns holds
\* only BREAKING changes, each with the consumers of its endpoint attached.
C11_CheckBreakingPure ==
    [][call'.op = "check_breaking" =>
          /\ tables' = tables
          /\ ids' = ids
          /\ \A i \in 1..Len(call'.changes) :
                 /\ call'.changes[i].severity = BREAKING
                 /\ Range(call'.changes[i].affected_consumers) =
                        EdgeNames(call'.changes[i].repo_name,
                                  call'.changes[i].endpoint_method,
                                  call'.changes[i].endpoint_path)]_vars

\* check_breaking has returned a breaking change with a consumer attached,
\* from a diff that also held a non-breaking change, and the store still
\* holds the endpoints of before the scan.
C11_Witness ==
    /\ call.op = "check_breaking"
    /\ call.outcome = "ok"
    /\ \E i \in 1..Len(call.changes) : call.changes[i].affected_consumers # <<>>
    /\ diff_endpoints(get_endpoints(endpoints, call.repo_name), call.scanned)[2] # <<>>
    /\ versions # {}
\* C12: assess_impact and check_breaking called with a name that is not
\* registered raise the not-registered ValueError, and only then; the failed
\* call scans nothing and leaves endpoints, versions, reports and consumer
\* edges as they were.
C12_NotRegistered ==
    [][call'.op \in {"assess_impact", "check_breaking"} =>
          /\ call'.outcome = "ValueError" <=> call'.repo_name \notin DOMAIN repos
          /\ call'.outcome = "ValueError" =>
                 /\ tables' = tables
                 /\ ids' = ids
                 /\ call'.scanned = <<>>]_vars

\* assess_impact has failed for an unregistered name against a store that
\* holds endpoints, versions, reports and consumer edges of another name.
C12_Witness ==
    /\ call.op = "assess_impact"
    /\ call.outcome = "ValueError"
    /\ endpoints # {}
    /\ versions # {}
    /\ reports # {}
    /\ consumers # {}
\* C13: register_consumer(C, P, m, p) stores the edge and returns it iff
\* (m, p) is among P's stored endpoints; otherwise it raises ValueError and
\* the consumer edges are as before.
C13_RegisterConsumer ==
    [][call'.op = "register_consumer" =>
          IF \E ep \in endpoints :
                 /\ ep.repo_name = call'.asked.producer_repo
                 /\ ep.method = call'.asked.endpoint_method
                 /\ ep.path = call'.asked.endpoint_path
          THEN /\ call'.outcome = "ok"
               /\ call'.returned = Some(call'.asked)
               /\ consumers' = consumers \cup {call'.asked}
          ELSE /\ call'.outcome = "ValueError"
               /\ consumers' = consumers]_vars

\* register_consumer has rejected an edge to an endpoint the producer does
\* not store, the producer storing another endpoint and an edge to it.
C13_Witness ==
    /\ call.op = "register_consumer"
    /\ call.outcome = "ValueError"
    /\ \E ep \in endpoints : ep.repo_name = call.asked.producer_repo
    /\ \E c \in consumers : c.producer_repo = call.asked.producer_repo
\* C14: the affected_consumers of a breaking change on (m, p) of P are the
\* names of the edges registered for (P, m, p), each once: a consumer whose
\* edges to P are for another method or path is not listed, and a change
\* without an edge on its (m, p) has the empty list.
C14_ExactConsumers ==
    Assessed =>
        \A i \in 1..Len(call.report[1].breaking_changes) :
            LET bc == call.report[1].breaking_changes[i]
                names == EdgeNames(bc.repo_name, bc.endpoint_method, bc.endpoint_path)
            IN /\ Range(bc.affected_consumers) = names
               /\ Len(bc.affected_consumers) = Cardinality(names)

\* A report with a breaking change that lists no consumer although a
\* consumer has an edge to another endpoint of the repository, and a second
\* breaking change that lists that consumer.
C14_Witness ==
    /\ Assessed
    /\ \E i, j \in 1..Len(call.report[1].breaking_changes) :
           LET bc == call.report[1].breaking_changes[i]
               other == call.report[1].breaking_changes[j]
           IN /\ bc.affected_consumers = <<>>
              /\ other.affected_consumers # <<>>
              /\ \E c \in consumers :
                     /\ c.producer_repo = bc.repo_name
                     /\ c.endpoint_method # bc.endpoint_method


-----------------------------------------------------------------------------
(* Two invocations of assess_impact against one store *)
(*                                                                            *)
(* Every method of the store commits before it returns and assess_impact     *)
(* opens no transaction of its own, so an invocation in another process (the  *)
(* command line and the MCP server each open the database file) runs between  *)
(* any two store calls.  An invocation is at the store call it makes next.    *)
(* The calls of get_affected_consumers read the consumers table, which no     *)
(* invocation writes: they are taken with the diff.                           *)

\* The invocations that run at once.
MaxProcs == 2

Procs == 1..MaxProcs

\* The repository the invocations assess and its registration.
Assessed_repo == RepoInfo("user-svc", ScannedPath)

\* An invocation: the call it makes next and its local variables.
Invocation(at, repo, old_endpoints, new_endpoints, breaking_changes, non_breaking_changes, count, report) ==
    [at |-> at, repo |-> repo, old_endpoints |-> old_endpoints,
     new_endpoints |-> new_endpoints, breaking |-> breaking_changes,
     non_breaking |-> non_breaking_changes, consumer_count |-> count,
     report |-> report]

\* What the directory declares while the invocations run.
RaceScans == {<<>>, <<GetX>>, <<GetXNarrow, PostX>>}

\* What an earlier scan of the directory stored.
RaceStored == {<<GetX>>, <<PostX, GetX>>}

InitRace ==
    /\ repos = (Assessed_repo.name :> Assessed_repo)
    /\ \E declared \in RaceStored :
           endpoints = save_endpoints({}, scan_repo(Assessed_repo, TRUE, declared),
                                      {Assessed_repo.name}).rows
    /\ consumers \in {{}, {Consumer("billing", Assessed_repo.name, "GET", "/x")}}
    /\ versions = {}
    /\ reports = {}
    /\ ids = 0
    /\ call = NoCall
    /\ tree \in {[is_dir |-> TRUE, declared |-> declared] : declared \in RaceScans}
    /\ procs = [p \in Procs |->
                   Invocation("get_repo", None, <<>>, <<>>, <<>>, <<>>, 0, None)]
    /\ pc = "race"
    /\ found = <<>>
    /\ failed = ""
    /\ left = <<>>
    /\ right = <<>>
    /\ digests = <<>>
    /\ DiffIdle
    /\ ResolveIdle

\* The step of invocation p that leaves the store as it is.
Local(p, next) ==
    /\ procs' = [procs EXCEPT ![p] = next]
    /\ UNCHANGED <<diffVars, resolveVars, storeVars, scanVars, hashVars, pc>>

\* repo = store.get_repo(repo_name), and the ValueError when it is None.
LoadRepo(p) ==
    /\ procs[p].at = "get_repo"
    /\ Local(p, [procs[p] EXCEPT
                    !.repo = get_repo(Assessed_repo.name),
                    !.at = IF get_repo(Assessed_repo.name) = None
                           THEN "ValueError" ELSE "get_endpoints"])

\* old_endpoints = store.get_endpoints(repo_name).
LoadEndpoints(p) ==
    /\ procs[p].at = "get_endpoints"
    /\ Local(p, [procs[p] EXCEPT
                    !.old_endpoints = get_endpoints(endpoints, Assessed_repo.name),
                    !.at = "scan_repo"])

\* new_endpoints = scan_repo(repo, config).
Rescan(p) ==
    /\ procs[p].at = "scan_repo"
    /\ Local(p, [procs[p] EXCEPT
                    !.new_endpoints = scan_repo(procs[p].repo[1], tree.is_dir,
                                                tree.declared),
                    !.at = "diff_endpoints"])

\* The breaking changes with their consumers attached.
Attached(breaking_changes, affected_map) ==
    [i \in 1..Len(breaking_changes) |->
        BreakingChange(breaking_changes[i].repo_name,
            breaking_changes[i].endpoint_method,
            breaking_changes[i].endpoint_path,
            breaking_changes[i].change_kind,
            breaking_changes[i].severity,
            breaking_changes[i].description,
            Get(affected_map, breaking_changes[i], <<>>))]

\* The locals of an invocation after the diff and the consumer lookup.
Compared(inv, d, affected_map) ==
    [inv EXCEPT !.breaking = Attached(d[1], affected_map),
                !.non_breaking = d[2],
                !.consumer_count = consumer_count(affected_map),
                !.at = "save_version"]

Lookup(inv, d) == Compared(inv, d, get_affected_consumers(consumers, d[1]))

\* diff_endpoints, get_affected_consumers and the loops after them.
DiffStep(p) ==
    /\ procs[p].at = "diff_endpoints"
    /\ Local(p, Lookup(procs[p], diff_endpoints(procs[p].old_endpoints,
                                                procs[p].new_endpoints)))

\* store.save_version(version).
SaveVersion(p) ==
    /\ procs[p].at = "save_version"
    /\ versions' = save_version(versions,
           ContractVersion(Assessed_repo.name, ids + 1,
                           compute_spec_hash(procs[p].new_endpoints),
                           procs[p].new_endpoints))
    /\ ids' = ids + 1
    /\ procs' = [procs EXCEPT ![p].at = "delete_endpoints"]
    /\ UNCHANGED <<repos, endpoints, consumers, reports, call, diffVars,
                   resolveVars, scanVars, hashVars, pc>>

\* store.delete_endpoints(repo_name).
DeleteEndpoints(p) ==
    /\ procs[p].at = "delete_endpoints"
    /\ endpoints' = delete_endpoints(endpoints, Assessed_repo.name)
    /\ procs' = [procs EXCEPT ![p].at = "save_endpoints"]
    /\ UNCHANGED <<repos, consumers, versions, reports, ids, call, diffVars,
                   resolveVars, scanVars, hashVars, pc>>

\* The store and the invocation after save_endpoints returned or raised.
Saved(p, r) ==
    /\ endpoints' = r.rows
    /\ procs' = [procs EXCEPT ![p].at = IF r.raised THEN "IntegrityError"
                                        ELSE "save_report"]
    /\ UNCHANGED <<repos, consumers, versions, reports, ids, call, diffVars,
                   resolveVars, scanVars, hashVars, pc>>

\* store.save_endpoints(new_endpoints).
SaveEndpoints(p) ==
    /\ procs[p].at = "save_endpoints"
    /\ Saved(p, save_endpoints(endpoints, procs[p].new_endpoints, DOMAIN repos))

\* The store and the invocation after the report was saved and returned.
Reported(p, report) ==
    /\ reports' = save_report(reports, report)
    /\ ids' = ids + 1
    /\ procs' = [procs EXCEPT ![p].at = "return", ![p].report = Some(report)]
    /\ UNCHANGED <<repos, endpoints, consumers, versions, call, diffVars,
                   resolveVars, scanVars, hashVars, pc>>

\* store.save_report(report) and the return.
SaveReport(p) ==
    /\ procs[p].at = "save_report"
    /\ Reported(p, ImpactReport(Assessed_repo.name, ids + 1, procs[p].breaking,
                                procs[p].non_breaking, procs[p].consumer_count))

NextRace ==
    \E p \in Procs :
        \/ LoadRepo(p)
        \/ LoadEndpoints(p)
        \/ Rescan(p)
        \/ DiffStep(p)
        \/ SaveVersion(p)
        \/ DeleteEndpoints(p)
        \/ SaveEndpoints(p)
        \/ SaveReport(p)

SpecRace == InitRace /\ [][NextRace]_vars

-----------------------------------------------------------------------------
(* One operation of a document, its responses drawn from a bounded set *)

status_codes == <<"200", "201", "202">>

\* The key yaml.safe_load gives a status written without quotation marks:
\* the integer, which is not the string the code looks up.
Unquoted(status_code) ==
    CASE status_code = "200" -> "int 200"
      [] status_code = "201" -> "int 201"
      [] status_code = "202" -> "int 202"

\* A response with a JSON body of this schema.
JsonResponse(node) ==
    Dict(<< <<"content",
        Dict(<< <<"application/json", Dict(<< <<"schema", node>> >>)>> >>)>> >>)

\* No entry under a status.
Absent == [py |-> "absent"]

\* What an operation may list under a status: nothing, a value that is not
\* a mapping, a response without content, a response whose schema is not an
\* object, is an object without fields, or has fields.
ListedResponses ==
    {Absent, Other, Dict(<<>>), JsonResponse(Scalar),
     JsonResponse("type" :> "object"), JsonResponse(Leaf), JsonResponse(Ref("A"))}

\* The items of the responses mapping in the order written.
RECURSIVE Items(_, _, _)
Items(listed, keys, written) ==
    IF written = <<>> THEN <<>>
    ELSE IF listed[Head(written)] = Absent THEN Items(listed, keys, Tail(written))
    ELSE <<<<keys[Head(written)], listed[Head(written)]>>>>
             \o Items(listed, keys, Tail(written))

\* The operation: a summary and the responses.
Listing(listed, keys, written) ==
    Dict(<< <<"summary", "list">>,
            <<"responses", Dict(Items(listed, keys, written))>> >>)

\* The definitions the schemas refer to.
ListedComponents == "A" :> Loose

InitOperation ==
    /\ \E listed \in [1..3 -> ListedResponses], quoted \in BOOLEAN,
          written \in {<<1, 2, 3>>, <<3, 2, 1>>} :
           tree = [listed |-> listed, quoted |-> quoted,
                   operation |-> Listing(listed,
                       [i \in 1..3 |-> IF quoted THEN status_codes[i]
                                       ELSE Unquoted(status_codes[i])],
                       written)]
    /\ found = <<>>
    /\ failed = ""
    /\ pc = "start"
    /\ left = <<>>
    /\ right = <<>>
    /\ digests = <<>>
    /\ procs = <<>>
    /\ DiffIdle
    /\ ResolveIdle
    /\ StoreIdle

\* The turn of the loops of _parse_openapi_file for GET /x of the document.
ParseOperation ==
    /\ pc = "start"
    /\ Scanned(Operation("user-svc", "GET", "/x", tree.operation, ListedComponents))

NextOperation == ParseOperation

SpecOperation == InitOperation /\ [][NextOperation]_vars

-----------------------------------------------------------------------------
(* Properties of the scanners, read off the directory and the list returned *)

ScanDone == pc = "done" /\ tree.is_dir

\* Two endpoints of one repository with the same method and path.
SameIdentity(a, b) ==
    /\ a.repo_name = b.repo_name
    /\ a.method = b.method
    /\ a.path = b.path

\* C15: no two endpoints of a list returned by scan_repo share their
\* (repository, method, path) identity, whatever the directory holds:
\* several documents that declare the same path and method included.
C15_UniqueIdentities ==
    ScanDone =>
        \A i, j \in 1..Len(found) : i # j => ~SameIdentity(found[i], found[j])

\* Two documents that both declare GET /x, scanned as OpenAPI: the list
\* returned holds GET /x twice.
C15_TwoDocumentsWitness ==
    /\ ScanDone
    /\ tree.contract_type = Some(OPENAPI)
    /\ tree.spec_files = <<DocGetX, DocGetXPostY>>
    /\ failed = ""
    /\ Len(found) = 3
    /\ SameIdentity(found[1], found[2])

\* A document that cannot be parsed.
Unparseable(spec_file) == ~spec_file.parses

\* A document whose top level, components section or paths section is not a
\* mapping.
NotMapping(spec_file) ==
    /\ spec_file.parses
    /\ \/ ~IsDict(spec_file.spec)
       \/ ~IsDict(PyGet(spec_file.spec, "components", Dict(<<>>)))
       \/ ~IsDict(PyGet(spec_file.spec, "paths", Dict(<<>>)))

\* The endpoints of the documents that are neither, in the order found.
OfTheOthers(repo_name, spec_files) ==
    Concat([i \in 1..Len(spec_files) |->
               IF Unparseable(spec_files[i]) \/ NotMapping(spec_files[i])
               THEN <<>>
               ELSE _parse_openapi_file(spec_files[i], repo_name).value])

\* C19: scan_openapi does not fail on a malformed document: a matched file
\* that cannot be parsed, or whose top level, paths or components section is
\* not a mapping, adds no endpoint, and the endpoints of the other matched
\* files are returned.
C19_MalformedSkipped ==
    (/\ ScanDone
     /\ tree.contract_type = Some(OPENAPI)
     /\ \E i \in 1..Len(tree.spec_files) :
            Unparseable(tree.spec_files[i]) \/ NotMapping(tree.spec_files[i]))
        => /\ failed = ""
           /\ found = OfTheOthers(PathName(tree.path), tree.spec_files)

\* A document whose top level is not a mapping is skipped, and it is the
\* only malformed document that is.
C19_TopLevelSkipped ==
    (/\ ScanDone
     /\ tree.contract_type = Some(OPENAPI)
     /\ \A i \in 1..Len(tree.spec_files) :
            tree.spec_files[i] \in {DocTopList, DocGetX, DocGetXPostY})
        => /\ failed = ""
           /\ found = OfTheOthers(PathName(tree.path), tree.spec_files)

C19_TopLevelWitness ==
    /\ ScanDone
    /\ tree.contract_type = Some(OPENAPI)
    /\ tree.spec_files = <<DocTopList, DocGetXPostY>>
    /\ Len(found) = 2

\* The model classes with an annotated field of the files that parse, as
\* <<file, node>> positions.
ModelClasses(py_files) ==
    {<<i, k>> \in (1..MaxSources) \X (1..4) :
        /\ i <= Len(py_files)
        /\ py_files[i].parse = "ok"
        /\ k <= Len(py_files[i].nodes)
        /\ py_files[i].nodes[k].node = "ClassDef"
        /\ \E b \in Range(py_files[i].nodes[k].bases) : b.name = "BaseModel"
        /\ \E s \in Range(py_files[i].nodes[k].body) : s.stmt = "AnnAssign"}

\* C20: scan_pydantic_models does not raise for bad source files: whatever
\* the files under the scanned directories, the result holds one endpoint
\* (method SCHEMA, a response schema and no request schema) for each model
\* class with an annotated field of the files that parse; a file with a
\* syntax or decoding error, and a model class without annotated fields,
\* add nothing and do not stop the scan.
C20_BadSourcesSkipped ==
    (ScanDone /\ tree.contract_type = Some(PYDANTIC))
        => /\ failed = ""
           /\ Len(found) = Cardinality(ModelClasses(tree.py_files))
           /\ \A i \in 1..Len(found) :
                  /\ found[i].method = "SCHEMA"
                  /\ found[i].request_schema = None
                  /\ found[i].response_schema # None

\* The same for the files whose error is a SyntaxError or a
\* UnicodeDecodeError, the two exceptions _parse_pydantic_file catches.
C20_CaughtSkipped ==
    (/\ ScanDone
     /\ tree.contract_type = Some(PYDANTIC)
     /\ \A i \in 1..Len(tree.py_files) : tree.py_files[i].parse # "RecursionError")
        => /\ failed = ""
           /\ Len(found) = Cardinality(ModelClasses(tree.py_files))
           /\ \A i \in 1..Len(found) :
                  /\ found[i].method = "SCHEMA"
                  /\ found[i].request_schema = None
                  /\ found[i].response_schema # None

C20_CaughtWitness ==
    /\ ScanDone
    /\ tree.contract_type = Some(PYDANTIC)
    /\ tree.py_files = <<SourceSyntax, SourceA>>
    /\ Len(found) = 1


-----------------------------------------------------------------------------
(* compute_spec_hash called on bounded lists *)

\* The most endpoints of a list that is hashed.
MaxEndpoints == 2

\* The schemas of an endpoint hashed: none, an empty request text, a request
\* text, a response text.
HashedSchemas ==
    {<<None, None>>, <<EmptyText, None>>, <<RequestOptional, None>>,
     <<None, ResponseId>>}

\* The endpoints hashed: GET or POST on /x with these schemas, GET /y, and
\* GET /x with a summary and under another repository name.
HashedEndpoints ==
    {Endpoint("user-svc", method, "/x", None, schemas[1], schemas[2]) :
        method \in {"GET", "POST"}, schemas \in HashedSchemas}
        \cup {Endpoint("user-svc", "GET", "/y", None, None, None),
              Endpoint("user-svc", "GET", "/x", Some("Get x"), None, None),
              Endpoint("orders", "GET", "/x", None, None, None)}

InitHash ==
    /\ left \in UpTo(HashedEndpoints, MaxEndpoints)
    /\ right \in UpTo(HashedEndpoints, MaxEndpoints)
    /\ digests = <<>>
    /\ pc = "start"
    /\ tree = <<>>
    /\ found = <<>>
    /\ failed = ""
    /\ procs = <<>>
    /\ DiffIdle
    /\ ResolveIdle
    /\ StoreIdle

\* The calls compute_spec_hash(left) and compute_spec_hash(right).
ComputeSpecHash ==
    /\ pc = "start"
    /\ digests' = <<compute_spec_hash(left), compute_spec_hash(right)>>
    /\ pc' = "done"
    /\ UNCHANGED <<left, right, diffVars, resolveVars, storeVars, scanVars, procs>>

NextHash == ComputeSpecHash

SpecHash == InitHash /\ [][NextHash]_vars

-----------------------------------------------------------------------------
(* Properties of compute_spec_hash, read off the two lists and their digests *)

Hashed == pc = "done" /\ digests # <<>>

\* One list is the other in another order.
Reordered(a, b) ==
    /\ Len(a) = Len(b)
    /\ \E p \in Permutations(1..Len(a)) : b = [i \in 1..Len(a) |-> a[p[i]]]

\* C17: compute_spec_hash gives a list the same digest whatever the order of
\* its endpoints: two lists that hold the same endpoints in different orders
\* have the same digest (and a list has the digest of itself).
C17_PermutationInvariant ==
    (Hashed /\ Reordered(left, right)) => digests[1] = digests[2]

\* Two endpoints with different canonical tuples hashed in the two orders.
C17_Witness ==
    /\ Hashed
    /\ Len(left) = 2
    /\ left[1].method # left[2].method
    /\ right = <<left[2], left[1]>>
    /\ digests[1] = digests[2]

\* The (method, path, request schema, response schema) tuples of a list, as
\* the endpoints hold them.
Held(eps) ==
    [i \in 1..Len(eps) |->
        <<eps[i].method, eps[i].path, eps[i].request_schema, eps[i].response_schema>>]

\* The same tuples with a schema that is absent or the empty text taken as
\* no schema.
Truthful(schema_json) == IF schema_json = EmptyText THEN None ELSE schema_json

HeldTruthful(eps) ==
    [i \in 1..Len(eps) |->
        <<eps[i].method, eps[i].path, Truthful(eps[i].request_schema),
          Truthful(eps[i].response_schema)>>]

\* Two lists of tuples hold the same tuples, each as often.
SameTuples(a, b) ==
    \A t \in Range(a) \cup Range(b) :
        Cardinality({i \in 1..Len(a) : a[i] = t})
            = Cardinality({i \in 1..Len(b) : b[i] = t})

C18_Witness ==
    /\ Hashed
    /\ Len(left) = 2
    /\ Len(right) = 2
    /\ left # right
    /\ digests[1] = digests[2]

-----------------------------------------------------------------------------
(* Properties of two invocations of assess_impact *)

\* Invocation p makes the call it is at.
Calls(p, at, next) == procs[p].at = at /\ procs'[p].at = next

\* The changes of a report, without the identifier of the report.
Changes(report) == <<report.breaking_changes, report.non_breaking_changes>>

\* C16: the read, the diff and the writes of assess_impact are separate
\* steps against the shared store.  An invocation reads whatever is stored
\* when its get_endpoints runs, whatever the other invocations have done;
\* delete_endpoints leaves the stored set of the repository empty, for
\* every invocation to read, until a save_endpoints runs; and save_report
\* adds the report of the changes between what the invocation read and what
\* it scanned, whatever has been stored or reported since.  The
\* interleavings of the claim are C16_Witness and C16_EmptyReadWitness.
C16_NotAtomic ==
    [][\A p \in Procs :
          /\ Calls(p, "get_endpoints", "scan_repo")
                => procs'[p].old_endpoints
                       = get_endpoints(endpoints, Assessed_repo.name)
          /\ Calls(p, "delete_endpoints", "save_endpoints")
                => /\ get_endpoints(endpoints', Assessed_repo.name) = <<>>
                   /\ \A q \in Procs \ {p} : procs'[q] = procs[q]
          /\ Calls(p, "save_report", "return")
                => /\ reports \subseteq reports'
                   /\ \E report \in reports' \ reports :
                          /\ procs'[p].report = Some(report)
                          /\ report.non_breaking_changes
                                 = diff_endpoints(procs[p].old_endpoints,
                                                  procs[p].new_endpoints)[2]
                          /\ Len(report.breaking_changes)
                                 = Len(diff_endpoints(procs[p].old_endpoints,
                                                      procs[p].new_endpoints)[1])]_vars

\* Both invocations read the same stored set, and each has persisted a
\* report of the same breaking change.
C16_Witness ==
    /\ \A p \in Procs : procs[p].at = "return"
    /\ procs[1].old_endpoints = procs[2].old_endpoints
    /\ procs[1].old_endpoints # <<>>
    /\ procs[1].report # procs[2].report
    /\ Changes(procs[1].report[1]) = Changes(procs[2].report[1])
    /\ procs[1].report[1].breaking_changes # <<>>
    /\ {procs[1].report[1], procs[2].report[1]} \subseteq reports

\* One invocation read the stored set between the delete_endpoints and the
\* save_endpoints of the other and saw it empty, although the repository had
\* endpoints stored before and declares endpoints now: it reports the
\* endpoints as added.
C16_EmptyReadWitness ==
    \E p, q \in Procs :
        /\ p # q
        /\ procs[q].at = "save_endpoints"
        /\ procs[p].at = "save_version"
        /\ procs[p].old_endpoints = <<>>
        /\ procs[q].old_endpoints # <<>>
        /\ procs[p].new_endpoints # <<>>
        /\ procs[p].breaking = <<>>
        /\ Len(procs[p].non_breaking) = Len(procs[p].new_endpoints)


-----------------------------------------------------------------------------
(* Properties of the response schema of an operation *)

\* The field table of the response the operation lists under the i-th
\* status, empty when it lists none or one without a JSON schema.
TableOf(i) ==
    IF ~IsDict(tree.listed[i]) THEN EmptyDict
    ELSE IF ~Has(tree.listed[i], "content") THEN EmptyDict
    ELSE _schema_to_fields(
             tree.listed[i].items[1][2].items[1][2].items[1][2],
             ListedComponents).value

\* The first of 200, 201, 202 with fields, 0 when there is none.
FirstWithFields ==
    IF \E i \in 1..3 : DOMAIN TableOf(i) # {}
    THEN CHOOSE i \in 1..3 :
             /\ DOMAIN TableOf(i) # {}
             /\ \A j \in 1..(i - 1) : DOMAIN TableOf(j) = {}
    ELSE 0

FirstTable ==
    IF FirstWithFields = 0 THEN None
    ELSE DumpsOrNone(TableOf(FirstWithFields))

\* C22: the response schema of an operation is the field table of the first
\* of the statuses 200, 201, 202 it lists with a JSON schema that has
\* fields; an earlier status without schema, with a schema that is not an
\* object or without fields does not end the search; without such a status
\* the response schema is absent.
C22_FirstWithFields ==
    pc = "done" =>
        /\ failed = ""
        /\ Len(found) = 1
        /\ found[1].response_schema = FirstTable

\* The same for the documents that write every status in quotation marks.
C22_QuotedFirstWithFields ==
    (pc = "done" /\ tree.quoted) =>
        /\ failed = ""
        /\ Len(found) = 1
        /\ found[1].response_schema = FirstTable

\* 200 is listed with a schema that is not an object, 201 with fields and
\* 202 with other fields: the response schema is that of 201.
C22_Witness ==
    /\ pc = "done"
    /\ tree.quoted
    /\ tree.listed[1] = JsonResponse(Scalar)
    /\ tree.listed[2] = JsonResponse(Leaf)
    /\ tree.listed[3] = JsonResponse(Ref("A"))
    /\ found[1].response_schema = ResponseId

-----------------------------------------------------------------------------
(* core/store.py: the rows of the endpoints and consumers tables *)
(*                                                                            *)
(* A row is the columns of the value written and the id the table gives it    *)
(* (INTEGER PRIMARY KEY AUTOINCREMENT).  endpoints has                        *)
(* UNIQUE(repo_name, method, path) and a foreign key on repos(name);          *)
(* consumers has UNIQUE(consumer_repo, producer_repo, endpoint_method,        *)
(* endpoint_path) and no foreign key.  The tables are those the connection    *)
(* of the store reads.                                                        *)

\* The highest id a table gives out in the calls explored.
MaxRowId == 3

Row(id, value) == ("id" :> id) @@ value

Columns(row) == [c \in DOMAIN row \ {"id"} |-> row[c]]

\* An INSERT that keeps the row it conflicts with.
InsertOrReplace_Insert(rows, row, unique) == rows \cup {row}

\* INSERT OR REPLACE of one row: the rows that agree with it on every column
\* of the UNIQUE constraint are deleted, then the row is inserted.
InsertOrReplace(rows, row, unique) ==
    {r \in rows : \E c \in unique : r[c] # row[c]} \cup {row}

\* The executemany of save_endpoints: the endpoints are inserted in turn; the
\* first repo_name that is no registered repository raises
\* sqlite3.IntegrityError, and the rows inserted before it stay.
RECURSIVE InsertEndpoints(_, _, _, _)
InsertEndpoints(rows, eps, registered, lastrowid) ==
    IF eps = <<>> THEN [raised |-> FALSE, rows |-> rows, lastrowid |-> lastrowid]
    ELSE IF Head(eps).repo_name \notin registered
    THEN [raised |-> TRUE, rows |-> rows, lastrowid |-> lastrowid]
    ELSE InsertEndpoints(
             InsertOrReplace(rows, Row(lastrowid + 1, Head(eps)),
                             {"repo_name", "method", "path"}),
             Tail(eps), registered, lastrowid + 1)

\* add_consumer: INSERT OR REPLACE INTO consumers.
InsertConsumer(rows, consumer, lastrowid) ==
    InsertOrReplace(rows, Row(lastrowid + 1, consumer),
                    {"consumer_repo", "producer_repo", "endpoint_method",
                     "endpoint_path"})

\* DELETE FROM consumers WHERE the four columns match; TRUE when a row went.
remove_consumer(rows, consumer_repo, producer_repo, method, path) ==
    LET gone == {r \in rows :
                    Columns(r) = Consumer(consumer_repo, producer_repo, method, path)}
    IN [rows |-> rows \ gone, removed |-> gone # {}]

\* The endpoints saved: GET /x of user-svc in two versions, POST /x of
\* user-svc, GET /x of billing, and GET /x of web, which is not registered.
SavedEndpoints ==
    {Endpoint("user-svc", "GET", "/x", None, None, None),
     Endpoint("user-svc", "GET", "/x", Some("Get x"), None, ResponseId),
     Endpoint("user-svc", "POST", "/x", None, RequestOptional, None),
     Endpoint("billing", "GET", "/x", None, None, None),
     Endpoint("web", "GET", "/x", None, None, None)}

StoredRepos == {"user-svc", "billing"}

Edges ==
    {Consumer(c, "user-svc", "GET", p) : c \in ConsumerRepos, p \in {"/x", "/y"}}

\* The store with its two repositories registered and both tables empty.
InitStore ==
    /\ repos = [n \in StoredRepos |-> RepoInfo(n, <<"srv", n>>)]
    /\ endpoints = {}
    /\ consumers = {}
    /\ versions = {}
    /\ reports = {}
    /\ ids = [endpoints |-> 0, consumers |-> 0]
    /\ call = [op |-> "none"]
    /\ pc = "start"
    /\ DiffIdle
    /\ ResolveIdle
    /\ RestIdle

StoreCalled(c) ==
    /\ call' = c
    /\ UNCHANGED <<repos, versions, reports, pc, diffVars, resolveVars, restVars>>

StoreSaveEndpoints ==
    \E eps \in ListsUpTo(SavedEndpoints, MaxLen) :
        /\ ids.endpoints + Len(eps) <= MaxRowId
        /\ LET r == InsertEndpoints(endpoints, eps, DOMAIN repos, ids.endpoints)
           IN /\ endpoints' = r.rows
              /\ ids' = [ids EXCEPT !.endpoints = r.lastrowid]
              /\ StoreCalled([op |-> "save_endpoints", eps |-> eps,
                              raised |-> r.raised, before |-> endpoints])
        /\ UNCHANGED consumers

StoreDeleteEndpoints ==
    \E repo_name \in StoredRepos \cup {"web"} :
        /\ endpoints' = delete_endpoints(endpoints, repo_name)
        /\ StoreCalled([op |-> "delete_endpoints", repo_name |-> repo_name])
        /\ UNCHANGED <<consumers, ids>>

StoreAddConsumer ==
    \E consumer \in Edges :
        /\ ids.consumers < MaxRowId
        /\ consumers' = InsertConsumer(consumers, consumer, ids.consumers)
        /\ ids' = [ids EXCEPT !.consumers = @ + 1]
        /\ StoreCalled([op |-> "add_consumer", consumer |-> consumer,
                        before |-> consumers])
        /\ UNCHANGED endpoints

StoreRemoveConsumer ==
    \E consumer \in Edges :
        /\ LET r == remove_consumer(consumers, consumer.consumer_repo,
                                    consumer.producer_repo,
                                    consumer.endpoint_method,
                                    consumer.endpoint_path)
           IN /\ consumers' = r.rows
              /\ StoreCalled([op |-> "remove_consumer", consumer |-> consumer,
                              removed |-> r.removed])
        /\ UNCHANGED <<endpoints, ids>>

NextStore ==
    \/ StoreSaveEndpoints
    \/ StoreDeleteEndpoints
    \/ StoreAddConsumer
    \/ StoreRemoveConsumer

SpecStore == InitStore /\ [][NextStore]_vars

-----------------------------------------------------------------------------
(* Properties of the rows of the store *)

SameEdge(c, d) ==
    /\ c.consumer_repo = d.consumer_repo
    /\ c.producer_repo = d.producer_repo
    /\ c.endpoint_method = d.endpoint_method
    /\ c.endpoint_path = d.endpoint_path

\* The endpoint a saved list holds last for the identity of its i-th entry.
LastSaved(eps, i) ==
    eps[CHOOSE j \in 1..Len(eps) :
            /\ SameIdentity(eps[j], eps[i])
            /\ \A k \in (j + 1)..Len(eps) : ~SameIdentity(eps[k], eps[i])]

\* C24: after any sequence of save_endpoints, delete_endpoints, add_consumer
\* and remove_consumer calls the endpoints table holds at most one row per
\* (repo_name, method, path) and the consumers table at most one row per
\* (consumer_repo, producer_repo, endpoint_method, endpoint_path); after a
\* save_endpoints that returned, the one row of each saved identity carries
\* the columns of the endpoint saved last for it.
C24_OneRowPerIdentity ==
    /\ \A r, q \in endpoints : SameIdentity(r, q) => r = q
    /\ \A c, d \in consumers : SameEdge(c, d) => c = d
    /\ (call.op = "save_endpoints" /\ ~call.raised) =>
           \A i \in 1..Len(call.eps) :
               \E r \in endpoints :
                   /\ Columns(r) = LastSaved(call.eps, i)
                   /\ \A q \in endpoints : SameIdentity(q, call.eps[i]) => q = r

\* GET /x of user-svc was stored without summary and is saved with one, and
\* an edge that is registered is added again: each table still has one row
\* for it, the endpoint's with the new columns.
C24_Witness ==
    /\ call.op = "save_endpoints"
    /\ call.eps = <<Endpoint("user-svc", "GET", "/x", Some("Get x"), None, ResponseId)>>
    /\ \E r \in call.before :
           Columns(r) = Endpoint("user-svc", "GET", "/x", None, None, None)
    /\ \E r \in endpoints : Columns(r) = call.eps[1]
    /\ \E c \in consumers : c.id > 1 /\ Cardinality(consumers) = 1

-----------------------------------------------------------------------------
(* Properties of the severities of the two lists *)

Severities(changes) == {changes[i].severity : i \in 1..Len(changes)}

\* C25: every change of the breaking list returned by diff_endpoints has
\* severity BREAKING and every change of the non-breaking list has severity
\* WARNING or INFO.
C25_SeverityPartition ==
    pc = "done" =>
        /\ Severities(breaking) \subseteq {BREAKING}
        /\ Severities(non_breaking) \subseteq {WARNING, INFO}

\* The same for the orchestrator: the breaking changes of a report returned
\* or stored by assess_impact, and those returned by check_breaking, have
\* severity BREAKING, and the non-breaking changes of a report WARNING or INFO.
C25_ReportSeverities ==
    /\ \A r \in reports :
           /\ Severities(r.breaking_changes) \subseteq {BREAKING}
           /\ Severities(r.non_breaking_changes) \subseteq {WARNING, INFO}
    /\ (call.op = "assess_impact" /\ call.report # None) =>
           /\ Severities(call.report[1].breaking_changes) \subseteq {BREAKING}
           /\ Severities(call.report[1].non_breaking_changes) \subseteq {WARNING, INFO}
    /\ (call.op = "check_breaking" /\ call.outcome = "ok") =>
           Severities(call.changes) \subseteq {BREAKING}

\* A comparison that fills both lists, the non-breaking one with a WARNING
\* and an INFO.
C25_Witness ==
    /\ pc = "done"
    /\ Severities(breaking) = {BREAKING}
    /\ Severities(non_breaking) = {WARNING, INFO}

\* A report with a breaking change is returned by assess_impact.
C25_ReportWitness ==
    /\ call.op = "assess_impact"
    /\ call.report # None
    /\ call.report[1].breaking_changes # <<>>
    /\ call.report[1].non_breaking_changes # <<>>

-----------------------------------------------------------------------------
(* Properties of two assessments in succession *)

\* A step of assess_impact that returns a report, taken right after a call of
\* assess_impact for the same repository that returned one, the scan finding
\* the same endpoints both times.
AssessedAgain ==
    /\ call.op = "assess_impact"
    /\ call.outcome = "ok"
    /\ call'.op = "assess_impact"
    /\ call'.outcome = "ok"
    /\ call'.repo_name = call.repo_name
    /\ Range(call'.scanned) = Range(call.scanned)

NothingReported(report) ==
    /\ report[1].breaking_changes = <<>>
    /\ report[1].non_breaking_changes = <<>>
    /\ report[1].consumer_count = 0

\* C26: when assess_impact(R) is run twice in succession and the scan finds
\* the same endpoints both times, the second report has no breaking change,
\* no non-breaking change and consumer_count 0.
C26_FixedPoint ==
    [][AssessedAgain => NothingReported(call'.report)]_vars

\* The same, for a repository registered under the name of its directory.
C26_NamedAfterDirectory ==
    [][(AssessedAgain /\ PathName(repos[call.repo_name].path) = call.repo_name)
           => NothingReported(call'.report)]_vars

\* user-svc was assessed twice with the same endpoints found: two versions
\* hold them, and the report of the second call lists nothing.
C26_Witness ==
    /\ call.op = "assess_impact"
    /\ call.outcome = "ok"
    /\ call.repo_name = "user-svc"
    /\ call.scanned # <<>>
    /\ Cardinality({v \in versions : v.repo_name = "user-svc"
                                     /\ v.endpoints = call.scanned}) = 2
    /\ NothingReported(call.report)

-----------------------------------------------------------------------------
(* Three snapshots compared in a chain *)

\* The longest snapshot of a chain.
MaxSnapshot == 1

ChainTypes == {"integer", "number", "string"}

\* The request schemas of a chain: none, no field, or the field "id" with a
\* type and a required flag.
ChainRequests ==
    {None, Object(<<>>)}
        \cup {Object(<<Member("id", [type |-> t, required |-> r])>>) :
                 t \in ChainTypes, r \in BOOLEAN}

ChainResponses ==
    {None} \cup {Object(<<Member("id", [type |-> t, required |-> TRUE])>>) :
                    t \in ChainTypes}

\* The snapshots A, B and C of the chain.
InitChain ==
    /\ \E a, b, c \in ListsUpTo(
              {Endpoint("orders", "POST", "/x", None, req, resp) :
                   req \in ChainRequests, resp \in ChainResponses}
                  \cup {Endpoint("orders", "GET", "/x", None, None, None)},
              MaxSnapshot) :
           tree = <<a, b, c>>
    /\ found = <<>>
    /\ failed = ""
    /\ pc = "start"
    /\ left = <<>>
    /\ right = <<>>
    /\ digests = <<>>
    /\ procs = <<>>
    /\ DiffIdle
    /\ ResolveIdle
    /\ StoreIdle

\* The calls diff_endpoints(A, B), diff_endpoints(B, C) and
\* diff_endpoints(A, C), one per step.
Compare ==
    /\ pc \in {"start", "second", "direct"}
    /\ found' = Append(found,
                  CASE pc = "start" -> diff_endpoints(tree[1], tree[2])
                    [] pc = "second" -> diff_endpoints(tree[2], tree[3])
                    [] pc = "direct" -> diff_endpoints(tree[1], tree[3]))
    /\ pc' = CASE pc = "start" -> "second"
               [] pc = "second" -> "direct"
               [] pc = "direct" -> "done"
    /\ UNCHANGED <<tree, failed, hashVars, procs, diffVars, resolveVars, storeVars>>

NextChain == Compare

SpecChain == InitChain /\ [][NextChain]_vars

-----------------------------------------------------------------------------
(* Properties of the chain *)

\* Neither step of the chain reported a breaking change.
NoStepBreaks == pc = "done" /\ found[1][1] = <<>> /\ found[2][1] = <<>>

RequestFields(eps, k) == DOMAIN _parse_schema(Holds(eps, k).request_schema)

\* Every request field that A and C both give an endpoint is a request field
\* of that endpoint in B.
RequestFieldsKept ==
    \A k \in Identities(tree[1]) \cap Identities(tree[2]) \cap Identities(tree[3]) :
        RequestFields(tree[1], k) \cap RequestFields(tree[3], k)
            \subseteq RequestFields(tree[2], k)

\* C27 as stated: when diff_endpoints(A, B) and diff_endpoints(B, C) both
\* return an empty breaking list, diff_endpoints(A, C) returns an empty
\* breaking list.
C27_Composes == NoStepBreaks => found[3][1] = <<>>

\* C27: the same, for chains in which B keeps every request field that A and
\* C share.
C27_ComposesWhenKept ==
    (NoStepBreaks /\ RequestFieldsKept) => found[3][1] = <<>>

\* Without that condition the breaking changes of the direct comparison are
\* type changes of request fields that B dropped.
C27_OnlyDroppedRequestFields ==
    NoStepBreaks =>
        \A i \in 1..Len(found[3][1]) :
            /\ found[3][1][i].change_kind = MODIFIED
            /\ found[3][1][i].description[3] = "type changed from"
            /\ found[3][1][i].description[8] = "request"
            /\ found[3][1][i].description[2] \notin
                   RequestFields(tree[2], <<"POST", "/x">>)

\* The request field id is widened from integer to number at the first step
\* and turned optional at the second: both steps and the direct comparison
\* report non-breaking changes only.
C27_Witness ==
    /\ NoStepBreaks
    /\ RequestFieldsKept
    /\ \A i \in 1..3 : Identities(tree[i]) = {<<"POST", "/x">>}
    /\ \A i \in 1..3 : RequestFields(tree[i], <<"POST", "/x">>) = {"id"}
    /\ found[1][2] # <<>>
    /\ found[2][2] # <<>>
    /\ Len(found[3][2]) = 2
    /\ found[3][1] = <<>>

\* The request field id is a string in A, dropped in B and an optional
\* integer in C: the direct comparison reports its type change as BREAKING.
C27_DroppedWitness ==
    /\ NoStepBreaks
    /\ Identities(tree[2]) = {<<"POST", "/x">>}
    /\ RequestFields(tree[2], <<"POST", "/x">>) = {}
    /\ found[3][1] # <<>>

-----------------------------------------------------------------------------
(* Properties of the consumer edges *)

\* A step of register_consumer that returned the edge it added.
RegisteredStep == call'.op = "register_consumer" /\ call'.outcome = "ok"

\* C28: assess_impact never adds, removes or changes a consumer edge, so
\* the consumers table grows by exactly the edges register_consumer returns:
\* a step of register_consumer that returns adds its edge, and every other
\* step, assess_impact among them, leaves the table as it was.
C28_EdgesAreRegistered ==
    [][consumers' = IF RegisteredStep THEN consumers \cup {call'.returned[1]}
                    ELSE consumers]_vars

\* After an assessment whose scan no longer found GET /x, the edge
\* registered against it is still in the table and no endpoint row matches it.
C28_Witness ==
    /\ call.op = "assess_impact"
    /\ call.outcome = "ok"
    /\ \E c \in consumers :
           /\ c.producer_repo = call.repo_name
           /\ \A r \in endpoints : ~(/\ r.repo_name = c.producer_repo
                                     /\ r.method = c.endpoint_method
                                     /\ r.path = c.endpoint_path)

-----------------------------------------------------------------------------
(* Properties of what compute_spec_hash reads *)

\* C29: compute_spec_hash depends only on the method, path, request schema
\* and response schema of each endpoint: two lists that agree on these four,
\* entry by entry, have the same digest whatever their summaries and
\* repository names.
C29_OnlyFourFields ==
    (Hashed /\ Held(left) = Held(right)) => digests[1] = digests[2]

\* The two lists differ in the summary of GET /x alone: the digests are
\* equal although diff_endpoints reports the summary change.
C29_Witness ==
    /\ Hashed
    /\ left = <<Endpoint("user-svc", "GET", "/x", None, None, None)>>
    /\ right = <<Endpoint("user-svc", "GET", "/x", Some("Get x"), None, None)>>
    /\ digests[1] = digests[2]
    /\ diff_endpoints(left, right)[1] = <<>>
    /\ Len(diff_endpoints(left, right)[2]) = 1
    /\ diff_endpoints(left, right)[2][1].description[1] = "Summary changed for"

\* The two lists differ in the repository name alone.
C29_RepoWitness ==
    /\ Hashed
    /\ left = <<Endpoint("user-svc", "GET", "/x", None, None, None)>>
    /\ right = <<Endpoint("orders", "GET", "/x", None, None, None)>>
    /\ digests[1] = digests[2]

-----------------------------------------------------------------------------
(* assess_impact on a store whose methods can fail *)
(*                                                                            *)
(* A method of the store that fails raises sqlite3.OperationalError before    *)
(* it wrote; assess_impact catches nothing, so the call ends there.           *)

\* The methods assess_impact calls to persist, in the order it calls them.
persistence_steps ==
    <<"save_version", "delete_endpoints", "save_endpoints", "save_report">>

\* A failure that leaves the tables as they were before the call.
FailAt_RolledBack(e, step, repo_name) ==
    IF e.outcome = "ValueError" THEN e
    ELSE IF e.outcome = "IntegrityError" /\ step = "save_report" THEN e
    ELSE Ended("OperationalError", versions, endpoints, reports, ids,
               e.scanned, None)

\* The call that would end as e, with the method `step` failing: the methods
\* called before it have written and committed, the later ones are not
\* called.
FailAt(e, step, repo_name) ==
    IF e.outcome = "ValueError" THEN e
    ELSE IF e.outcome = "IntegrityError" /\ step = "save_report" THEN e
    ELSE Ended("OperationalError",
               (IF step = "save_version" THEN versions ELSE e.versions),
               (CASE step \in {"save_version", "delete_endpoints"} -> endpoints
                  [] step = "save_endpoints" -> delete_endpoints(endpoints, repo_name)
                  [] step = "save_report" -> e.endpoints),
               reports,
               (IF step = "save_version" THEN ids ELSE e.ids),
               e.scanned, None)

\* The store with one repository registered, under the name of its
\* directory or under another name.
InitFailure ==
    /\ \E repo \in Registrations : repos = (repo.name :> repo)
    /\ endpoints = {}
    /\ consumers = {}
    /\ versions = {}
    /\ reports = {}
    /\ ids = 0
    /\ call = NoCall
    /\ pc = "store"
    /\ RestIdle
    /\ DiffIdle
    /\ ResolveIdle

\* The tables after a call of assess_impact that ended as e, the method
\* `step` having failed ("none": no method was made to fail).
Failed(repo_name, e, step) ==
    /\ versions' = e.versions
    /\ endpoints' = e.endpoints
    /\ reports' = e.reports
    /\ ids' = e.ids
    /\ call' = Called("assess_impact", repo_name, e.outcome, e.scanned, e.report)
                   @@ [failed_at |-> IF e.outcome = "IntegrityError"
                                     THEN "save_endpoints"
                                     ELSE IF e.outcome = "ok" THEN "none"
                                     ELSE step]
    /\ UNCHANGED <<repos, consumers, diffVars, resolveVars, restVars, pc>>

AssessFailing ==
    \E repo_name \in DOMAIN repos, scan \in Scans :
    \E step \in Range(persistence_steps) \cup {"none"} :
        /\ ids < MaxCalls
        /\ Failed(repo_name,
                  (IF step = "none"
                   THEN assess_impact(repo_name, scan[1], scan[2])
                   ELSE FailAt(assess_impact(repo_name, scan[1], scan[2]),
                               step, repo_name)),
                  step)

NextFailure == AssessFailing

SpecFailure == InitFailure /\ [][NextFailure]_vars

-----------------------------------------------------------------------------
(* Properties of a failed assessment *)

\* A step of assess_impact that a failing store method ended.
FailedStep ==
    /\ call'.op = "assess_impact"
    /\ call'.outcome \in {"OperationalError", "IntegrityError"}

\* The version the call saves first.
VersionOf(c) ==
    ContractVersion(c.repo_name, ids + 1, compute_spec_hash(c.scanned), c.scanned)

Before(step, other) ==
    Rank(step, persistence_steps) < Rank(other, persistence_steps)

\* C30: a failure of a store method during the persistence steps of
\* assess_impact ends the call with that error, no report returned or saved,
\* and what the earlier steps wrote stays: the version when the failure came
\* after save_version, the deletion of the old endpoints when it came after
\* delete_endpoints, the new endpoints when it came after save_endpoints.
C30_NoRollback ==
    [][FailedStep =>
          /\ call'.report = None
          /\ reports' = reports
          /\ versions' = IF Before("save_version", call'.failed_at)
                         THEN versions \cup {VersionOf(call')}
                         ELSE versions
          /\ endpoints' =
                 IF Before("save_endpoints", call'.failed_at)
                 THEN UpsertAll(delete_endpoints(endpoints, call'.repo_name),
                                call'.scanned)
                 ELSE IF Before("delete_endpoints", call'.failed_at)
                 THEN delete_endpoints(endpoints, call'.repo_name)
                 ELSE endpoints]_vars

\* save_endpoints failed in an assessment of a repository that had stored
\* endpoints: the new version is stored without a report of its id, and the
\* repository has no stored endpoint left.
C30_Witness ==
    /\ call.op = "assess_impact"
    /\ call.outcome = "OperationalError"
    /\ call.failed_at = "save_endpoints"
    /\ call.scanned # <<>>
    /\ \E v \in versions :
           /\ v.repo_name = call.repo_name
           /\ v.endpoints = call.scanned
           /\ \A r \in reports : r.report_id # v.version_id
    /\ \E v \in versions : v.endpoints # <<>> /\ v.endpoints # call.scanned
    /\ get_endpoints(endpoints, call.repo_name) = <<>>

\* save_report failed: the version and the new endpoints are stored, the
\* report is not.
C30_ReportWitness ==
    /\ call.op = "assess_impact"
    /\ call.failed_at = "save_report"
    /\ call.scanned # <<>>
    /\ Range(get_endpoints(endpoints, call.repo_name)) = Range(call.scanned)
    /\ reports = {}
    /\ versions # {}

=============================================================================
